---- MODULE Spec2Model ----
(***************************************************************************)
(* Conjunction screening and refinement of ca_proto: the Geometry Engine   *)
(* (geometry.py), the Coarse Screener (screening.py) and the Refiner       *)
(* (refine.py), as pure operators over a trajectory store, and the calls   *)
(* of coarse_screen and refine_candidates as actions (Spec); a direct call *)
(* of refine_pair on two trajectories of the store (SpecPair); and the     *)
(* command line of cli.py, main and its handlers, step by step (SpecCli).  *)
(*                                                                         *)
(* Numbers.  A float is a record [k, v]: k = "fin" with the value v, or    *)
(* k = "nan" / "inf".  Lengths are fixed-point: v counts units of 10^-7 km *)
(* (so round(x, 6) rounds to a multiple of RoundUnit = 10 units), speeds   *)
(* are units per second, and a timestamp is an integer count of seconds    *)
(* since the epoch of the run.         Indices reported by the code are     *)
(* 0-based, as in the source; sequences of the model are 1-based.          *)
(***************************************************************************)
EXTENDS Integers, Sequences, FiniteSets, TLC

VARIABLES states, screen, refined, pair, proc, plan, comp, prop

vars == <<states, screen, refined, pair, proc, plan, comp, prop>>

(***************************************************************************)
(* Bounds of the model.                                                    *)
(***************************************************************************)
\* longest coarse grid (samples per trajectory)
MaxT == 3
\* largest half-width window W passed to the refiner
MaxWindow == 1
\* largest upsample factor U passed to the refiner (1 is below the clamp)
MaxUpsample == 3

(***************************************************************************)
(* Program constants.                                                      *)
(***************************************************************************)
\* Defaults.step_s: spacing of the coarse grid, in seconds (the time unit)
StepS == 20

(***************************************************************************)
(* Floats.                                                                 *)
(***************************************************************************)
Fl(n) == [k |-> "fin", v |-> n]
NaN == [k |-> "nan", v |-> 0]
Inf == [k |-> "inf", v |-> 0]

isfinite(x) == x.k = "fin"
isinf(x) == x.k = "inf"

\* a - b on samples (finite or NaN): NaN as soon as one operand is NaN
FSub(a, b) == IF isfinite(a) /\ isfinite(b) THEN Fl(a.v - b.v) ELSE NaN

\* a < b under IEEE rules: every comparison with NaN is false
FLess(a, b) ==
    \/ a.k = "fin" /\ b.k = "fin" /\ a.v < b.v
    \/ a.k = "fin" /\ b.k = "inf"

\* floor of the square root
RECURSIVE ISqrt(_)
ISqrt(n) ==
    IF n < 2 THEN n
    ELSE LET s == 2 * ISqrt(n \div 4)
         IN IF (s + 1) * (s + 1) > n THEN s ELSE s + 1

\* (mutant of norm: a non-finite component gives 0, as np.nan_to_num would)
norm_nan_as_zero(v) ==
    IF \A c \in 1..3 : isfinite(v[c])
    THEN Fl(ISqrt(v[1].v * v[1].v + v[2].v * v[2].v + v[3].v * v[3].v))
    ELSE Fl(0)

\* np.linalg.norm of a 3-vector of floats
norm(v) ==
    IF \A c \in 1..3 : isfinite(v[c])
    THEN Fl(ISqrt(v[1].v * v[1].v + v[2].v * v[2].v + v[3].v * v[3].v))
    ELSE NaN

\* the length units in 10^-6 km, the last decimal place round(x, 6) keeps
RoundUnit == 10

\* (mutant of round6: the decimals beyond the sixth are cut, not rounded)
round6_truncate(x) ==
    IF ~isfinite(x) THEN x ELSE Fl((x.v \div RoundUnit) * RoundUnit)

\* round(x, 6): to the nearest multiple of RoundUnit, halves to the even one
round6(x) ==
    IF ~isfinite(x) THEN x
    ELSE LET q == x.v \div RoundUnit
             r == x.v % RoundUnit
         IN IF 2 * r < RoundUnit THEN Fl(q * RoundUnit)
            ELSE IF 2 * r > RoundUnit THEN Fl((q + 1) * RoundUnit)
            ELSE IF q % 2 = 0 THEN Fl(q * RoundUnit)
            ELSE Fl((q + 1) * RoundUnit)

\* Timestamp.isoformat(): the instant written as its minute and second fields
isoformat(t) == [mm |-> t \div 60, ss |-> t % 60]

(***************************************************************************)
(* Tables (pandas.DataFrame): the column names in order and the rows.      *)
(***************************************************************************)
\* (mutant of DataFrameOfColumns: pd.DataFrame() without columns=)
DataFrameOfColumns_bare(cols) == [columns |-> <<>>, rows |-> <<>>]

\* pd.DataFrame(columns=cols): no rows, the given columns
DataFrameOfColumns(cols) == [columns |-> cols, rows |-> <<>>]

\* pd.DataFrame(rows) for a list of dicts with the keys `keys`: the columns
\* are taken from the dicts, so an empty list gives a table with no column
DataFrameOfRows(rows, keys) ==
    [columns |-> IF rows = <<>> THEN <<>> ELSE keys, rows |-> rows]

\* position of a name in Python's string order (the names of the model)
NameUniverse == <<"A", "B", "C">>
NameRank(n) == CHOOSE i \in 1..Len(NameUniverse) : NameUniverse[i] = n

(***************************************************************************)
(* Trajectories (one DataFrame per object) and the trajectory store.       *)
(* len(df) is Len(df.time); every column has that length.                  *)
(***************************************************************************)
\* the position sample of df at (1-based) step k
PosAt(df, k) == <<df.rx_km[k], df.ry_km[k], df.rz_km[k]>>
VelAt(df, k) == <<df.vx_kms[k], df.vy_kms[k], df.vz_kms[k]>>

(***************************************************************************)
(* geometry.py                                                             *)
(***************************************************************************)
\* len(df) != T or not np.all(df["time"].values == t0.values)
\* (mutant: only the lengths are compared)
GridDiffers_length_only(df, t0) == Len(df.time) # Len(t0)
GridDiffers(df, t0) == Len(df.time) # Len(t0) \/ df.time # t0

\* _extract_positions: names, R[i][t] = position of object i at step t, and
\* the first trajectory's grid; raises on an empty mapping and on the first
\* trajectory (in mapping order) whose grid differs from the first one's

_extract_positions(st) ==
    LET names == st.keys
    IN IF names = <<>>
       THEN [raised |-> TRUE, error |-> "no states given",
             names |-> <<>>, R |-> <<>>, times |-> <<>>]
       ELSE LET t0 == st.df[names[1]].time
            IN IF \E i \in 1..Len(names) : GridDiffers(st.df[names[i]], t0)
               THEN [raised |-> TRUE,
                     error |-> "time grids differ between satellites; cannot screen coarsely",
                     names |-> <<>>, R |-> <<>>, times |-> <<>>]
               ELSE [raised |-> FALSE, error |-> "",
                     names |-> names,
                     R |-> [i \in 1..Len(names) |->
                               [t \in 1..Len(t0) |-> PosAt(st.df[names[i]], t)]],
                     times |-> t0]

\* rel = R[i] - R[j]; d = np.linalg.norm(rel, axis=1)
PairDistances(Ri, Rj) ==
    [t \in 1..Len(Ri) |-> norm([c \in 1..3 |-> FSub(Ri[t][c], Rj[t][c])])]

\* (mutant of d_safe_of: non-finite distances become 0, not +inf)
d_safe_zero(d) == [t \in 1..Len(d) |-> IF isfinite(d[t]) THEN d[t] ELSE Fl(0)]

\* np.where(np.isfinite(d), d, np.inf)
d_safe_of(d) == [t \in 1..Len(d) |-> IF isfinite(d[t]) THEN d[t] ELSE Inf]

\* np.argmin over a non-empty series without NaN: the 0-based index of the
\* first occurrence of the minimum
RECURSIVE ArgMinFrom(_, _, _)
ArgMinFrom(d, best, t) ==
    IF t > Len(d) THEN best - 1
    ELSE ArgMinFrom(d, IF FLess(d[t], d[best]) THEN t ELSE best, t + 1)
\* (mutant of argmin: the last occurrence of the minimum)
argmin_last(d) ==
    (CHOOSE t \in 1..Len(d) :
        /\ \A u \in 1..Len(d) : ~FLess(d[u], d[t])
        /\ \A u \in (t + 1)..Len(d) : FLess(d[t], d[u])) - 1

argmin(d) == ArgMinFrom(d, 1, 2)

\* the body of the loop over i < j: the tuple of the pair, or nothing
PairTuple(names, R, i, j) ==
    LET d == PairDistances(R[i], R[j])
        d_safe == d_safe_of(d)
    IN IF \A t \in 1..Len(d) : ~isfinite(d[t]) THEN <<>>
       ELSE LET idx == argmin(d_safe)
                dmin == d_safe[idx + 1]
            IN IF isinf(dmin) THEN <<>>
               ELSE << [name_i |-> names[i], name_j |-> names[j],
                        dmin |-> dmin, idx |-> idx] >>

\* for i in range(N): for j in range(i + 1, N): in this order
RECURSIVE PairLoop(_, _, _, _)
PairLoop(names, R, i, j) ==
    IF i > Len(names) THEN <<>>
    ELSE IF j > Len(names) THEN PairLoop(names, R, i + 1, i + 2)
    ELSE PairTuple(names, R, i, j) \o PairLoop(names, R, i, j + 1)

\* (mutant of pairwise_min_distance: the inner loop of the first object
\* starts at the object itself)
pairwise_min_distance_from_self(names, R) == PairLoop(names, R, 1, 1)

pairwise_min_distance(names, R) == PairLoop(names, R, 1, 2)

(***************************************************************************)
(* DataFrame.sort_values(by): KeyError when a column of `by` is not a      *)
(* column of the table, else the rows in ascending lexicographic order of  *)
(* the `by` cells, rows with equal keys in their original order (stable).  *)
(* reset_index(drop=True) renumbers the rows: their position in the        *)
(* sequence is their index.                                                *)
(***************************************************************************)
NameColumns == {"a", "b"}

\* the order of two cells of a column: names and actors as Python strings,
\* ISO timestamps of one format as their instants, numbers as floats
CellLess(col, x, y) ==
    IF col \in NameColumns THEN NameRank(x) < NameRank(y)
    ELSE IF col = "actor" THEN x = "a" /\ y = "b"
    ELSE IF col = "tca_utc" THEN x.mm < y.mm \/ (x.mm = y.mm /\ x.ss < y.ss)
    ELSE FLess(x, y)

\* (mutant of RowLess: only the first column of `by` is compared)
RowLess_first_column(by, r1, r2) ==
    by # <<>> /\ CellLess(Head(by), r1[Head(by)], r2[Head(by)])

RECURSIVE RowLess(_, _, _)
RowLess(by, r1, r2) ==
    IF by = <<>> THEN FALSE
    ELSE LET c == Head(by)
         IN \/ CellLess(c, r1[c], r2[c])
            \/ r1[c] = r2[c] /\ RowLess(Tail(by), r1, r2)

\* insert r after the last row that is not greater than it
RECURSIVE InsertRow(_, _, _)
InsertRow(by, sorted, r) ==
    IF sorted = <<>> THEN <<r>>
    ELSE IF RowLess(by, r, Head(sorted)) THEN <<r>> \o sorted
    ELSE <<Head(sorted)>> \o InsertRow(by, Tail(sorted), r)

RECURSIVE SortRows(_, _)
SortRows(by, rows) ==
    IF rows = <<>> THEN <<>>
    ELSE InsertRow(by, SortRows(by, SubSeq(rows, 1, Len(rows) - 1)), rows[Len(rows)])

sort_values(df, by) ==
    IF \E k \in 1..Len(by) : \A c \in 1..Len(df.columns) : df.columns[c] # by[k]
    THEN [raised |-> TRUE, error |-> "KeyError"]
    ELSE [raised |-> FALSE, error |-> "",
          df |-> [columns |-> df.columns, rows |-> SortRows(by, df.rows)]]

(***************************************************************************)
(* screening.py                                                            *)
(***************************************************************************)
CandidateColumns == <<"a", "b", "dmin_km", "t_index", "time_utc">>

\* (mutant of Survives: the comparison is the other way round)
Survives_reversed(dmin, screen_km) == FLess(screen_km, dmin)

\* (mutant of Survives: dmin <= screen_km)
Survives_or_equal(dmin, screen_km) == ~FLess(screen_km, dmin)

\* if dmin < screen_km
Survives(dmin, screen_km) == FLess(dmin, screen_km)

\* the loop over the tuples: one row per tuple with dmin < screen_km
RECURSIVE ScreenRows(_, _, _)
ScreenRows(tuples, times, screen_km) ==
    IF tuples = <<>> THEN <<>>
    ELSE LET t == Head(tuples)
             rest == ScreenRows(Tail(tuples), times, screen_km)
         IN IF Survives(t.dmin, screen_km)
            THEN << [a |-> t.name_i, b |-> t.name_j,
                     dmin_km |-> round6(t.dmin),
                     t_index |-> t.idx,
                     time_utc |-> isoformat(times[t.idx + 1])] >> \o rest
            ELSE rest

\* the table of coarse_screen from the tuples of the Geometry Engine
ScreenTable(tuples, rows) ==
    IF tuples = <<>> THEN DataFrameOfColumns(CandidateColumns)
    ELSE IF rows = <<>> THEN DataFrameOfColumns(CandidateColumns)
    ELSE sort_values(DataFrameOfRows(rows, CandidateColumns),
                     <<"dmin_km", "a", "b">>).df

\* coarse_screen after _extract_positions has returned ex
ScreenBody(ex, tuples, screen_km) ==
    [status |-> "returned", error |-> "", screen_km |-> screen_km,
     names |-> ex.names, tuples |-> tuples,
     table |-> ScreenTable(tuples, ScreenRows(tuples, ex.times, screen_km))]

ScreenExtracted(ex, screen_km) ==
    IF ex.raised
    THEN [status |-> "raised", error |-> ex.error, screen_km |-> screen_km,
          names |-> <<>>, tuples |-> <<>>]
    ELSE ScreenBody(ex, pairwise_min_distance(ex.names, ex.R), screen_km)

\* (mutant of coarse_screen: an empty mapping gives the empty table)
coarse_screen_empty_table(st, screen_km) ==
    IF st.keys = <<>>
    THEN [status |-> "returned", error |-> "", screen_km |-> screen_km,
          names |-> <<>>, tuples |-> <<>>,
          table |-> DataFrameOfColumns(CandidateColumns)]
    ELSE ScreenExtracted(_extract_positions(st), screen_km)

\* coarse_screen(states, screen_km): the outcome of the call (the table, or
\* the error raised), with the names and tuples of the Geometry Engine
coarse_screen(st, screen_km) == ScreenExtracted(_extract_positions(st), screen_km)

(***************************************************************************)
(* pandas.Series with the default integer index, as df["time"] is: the     *)
(* values and the label of the first one.  A slice s[i0:i1+1] is by        *)
(* position and keeps the labels i0..i1; s[key] with an integer key is a   *)
(* lookup by LABEL (an integer index never falls back to positions), so it *)
(* raises KeyError for a key that is not a label of s: s[-1] always does.  *)
(***************************************************************************)
SeriesOf(values) == [start |-> 0, values |-> values]
SeriesSlice(s, i0, i1) ==
    [start |-> s.start + i0, values |-> SubSeq(s.values, i0 + 1, i1 + 1)]
SeriesHasLabel(s, key) ==
    key >= s.start /\ key <= s.start + Len(s.values) - 1
SeriesGetItem(s, key) == s.values[key - s.start + 1]

(***************************************************************************)
(* refine.py                                                               *)
(***************************************************************************)
Max2(a, b) == IF a > b THEN a ELSE b
Min2(a, b) == IF a < b THEN a ELSE b

Positions(df) == [t \in 1..Len(df.time) |-> PosAt(df, t)]

\* (mutant of _coarse_min_index: np.argmin of the raw distances, which is the
\* first not-a-number step when there is one)
_coarse_min_index_raw(df_a, df_b) ==
    LET d == PairDistances(Positions(df_a), Positions(df_b))
    IN IF \E t \in 1..Len(d) : ~isfinite(d[t])
       THEN (CHOOSE t \in 1..Len(d) :
               ~isfinite(d[t]) /\ \A u \in 1..(t - 1) : isfinite(d[u])) - 1
       ELSE argmin(d)

\* _coarse_min_index: argmin of the separation, non-finite steps as +inf
_coarse_min_index(df_a, df_b) ==
    argmin(d_safe_of(PairDistances(Positions(df_a), Positions(df_b))))

\* pd.date_range(start, end, periods=n): n instants from start to end, evenly
\* spaced and cut to whole time units (np.linspace to integers)
date_range(start, end, periods) ==
    [i \in 1..periods |->
        IF periods = 1 THEN start
        ELSE start + ((i - 1) * (end - start)) \div (periods - 1)]

\* the forward fill: for i in range(1, len(y)): a non-finite y[i] takes y[i-1]
RECURSIVE FillForward(_, _)
FillForward(y, i) ==
    IF i > Len(y) THEN y
    ELSE FillForward(IF ~isfinite(y[i]) THEN [y EXCEPT ![i] = y[i - 1]] ELSE y, i + 1)

\* the backward fill: for i in range(len(y)-2, -1, -1): a non-finite y[i]
\* takes y[i+1]
RECURSIVE FillBackward(_, _)
FillBackward(y, i) ==
    IF i < 1 THEN y
    ELSE FillBackward(IF ~isfinite(y[i]) THEN [y EXCEPT ![i] = y[i + 1]] ELSE y, i - 1)

\* n / d to the nearest integer, d > 0
RoundDiv(n, d) == (2 * n + d) \div (2 * d)

\* np.interp(x, xp, fp) at one point, xp increasing, fp finite: fp at the ends
\* outside the grid, linear between the two neighbours inside
interp1(x, xp, fp) ==
    IF x <= xp[1] THEN fp[1]
    ELSE IF x >= xp[Len(xp)] THEN fp[Len(xp)]
    ELSE LET j == CHOOSE j \in 1..(Len(xp) - 1) : xp[j] <= x /\ x < xp[j + 1]
         IN Fl(fp[j].v + RoundDiv((fp[j + 1].v - fp[j].v) * (x - xp[j]),
                                  xp[j + 1] - xp[j]))

\* (mutant of InPlaceFill: the backward fill runs before the forward fill)
InPlaceFill_backward_first(y) ==
    IF \A i \in 1..Len(y) : ~isfinite(y[i]) THEN y
    ELSE FillForward(FillBackward(y, Len(y) - 1), 2)

\* the array y when _interp_component has run on it: untouched when no
\* sample is finite, else filled in place, forward and then backward
InPlaceFill(y) ==
    IF \A i \in 1..Len(y) : ~isfinite(y[i]) THEN y
    ELSE FillBackward(FillForward(y, 2), Len(y) - 1)

\* _interp_component: the series y on the grid t_s, filled, at the points
\* t_new_s; all NaN when y has no finite sample
_interp_component(t_s, y, t_new_s) ==
    IF \A i \in 1..Len(y) : ~isfinite(y[i])
    THEN [i \in 1..Len(t_new_s) |-> NaN]
    ELSE [i \in 1..Len(t_new_s) |-> interp1(t_new_s[i], t_s, InPlaceFill(y))]

\* _interp_state: positions and velocities of df at the instants t_new, the
\* times counted from the first sample of df
_interp_state(df, t_new) ==
    LET t0 == df.time[1]
        t_s == [k \in 1..Len(df.time) |-> df.time[k] - t0]
        t_new_s == [i \in 1..Len(t_new) |-> t_new[i] - t0]
        rx == _interp_component(t_s, df.rx_km, t_new_s)
        ry == _interp_component(t_s, df.ry_km, t_new_s)
        rz == _interp_component(t_s, df.rz_km, t_new_s)
        vx == _interp_component(t_s, df.vx_kms, t_new_s)
        vy == _interp_component(t_s, df.vy_kms, t_new_s)
        vz == _interp_component(t_s, df.vz_kms, t_new_s)
    IN [R |-> [i \in 1..Len(t_new) |-> <<rx[i], ry[i], rz[i]>>],
        V |-> [i \in 1..Len(t_new) |-> <<vx[i], vy[i], vz[i]>>]]

Vec3Sub(p, q) == [c \in 1..3 |-> FSub(p[c], q[c])]

RefineRaised(msg) == [raised |-> TRUE, error |-> msg]

\* the degenerate window: the coarse sample at the hint
RefineFallback(df_a, df_b, times, idx_hint) ==
    [raised |-> FALSE, error |-> "",
     tca_utc |-> isoformat(SeriesGetItem(times, idx_hint)),
     dca_km |-> norm(Vec3Sub(PosAt(df_a, idx_hint + 1), PosAt(df_b, idx_hint + 1))),
     vrel_kms |-> norm(Vec3Sub(VelAt(df_a, idx_hint + 1), VelAt(df_b, idx_hint + 1))),
     idx_coarse |-> idx_hint,
     idx_refined |-> idx_hint]

\* the refined closest approach, once the minimum j is found
RefineAt(t_fine, sa, sb, d_safe, idx_hint, j) ==
    [raised |-> FALSE, error |-> "",
     tca_utc |-> isoformat(t_fine[j + 1]),
     dca_km |-> d_safe[j + 1],
     vrel_kms |-> norm(Vec3Sub(sa.V[j + 1], sb.V[j + 1])),
     idx_coarse |-> idx_hint,
     idx_refined |-> j]

\* d = norm(Ra - Rb) on the refined grid, non-finite as +inf, and its argmin
RefineSearch(t_fine, sa, sb, d_safe, idx_hint) ==
    RefineAt(t_fine, sa, sb, d_safe, idx_hint, argmin(d_safe))

RefineDistances(t_fine, sa, sb, idx_hint) ==
    RefineSearch(t_fine, sa, sb,
                 d_safe_of([i \in 1..Len(t_fine) |-> norm(Vec3Sub(sa.R[i], sb.R[i]))]),
                 idx_hint)

\* both objects interpolated to the refined grid t_fine
RefineOnGrid(df_a, df_b, idx_hint, t_fine) ==
    RefineDistances(t_fine, _interp_state(df_a, t_fine), _interp_state(df_b, t_fine),
                    idx_hint)

\* (mutant of RefineWindow: the fallback is taken for i1 < i0 only)
RefineWindow_strict(df_a, df_b, times, idx_hint, upsample, i0, i1, t_window) ==
    IF i1 < i0
    THEN RefineFallback(df_a, df_b, times, idx_hint)
    ELSE IF ~SeriesHasLabel(t_window, 0) \/ ~SeriesHasLabel(t_window, -1)
    THEN RefineRaised("KeyError")
    ELSE RefineOnGrid(df_a, df_b, idx_hint,
             date_range(SeriesGetItem(t_window, 0),
                        SeriesGetItem(t_window, -1),
                        (Len(t_window.values) - 1)
                          * (IF upsample < 2 THEN 2 ELSE upsample) + 1))

\* the window [i0, i1] of coarse indices: the fallback when it holds a single
\* sample, else the refined grid from t_window[0] to t_window[-1]
RefineWindow(df_a, df_b, times, idx_hint, upsample, i0, i1, t_window) ==
    IF i1 <= i0
    THEN RefineFallback(df_a, df_b, times, idx_hint)
    ELSE IF ~SeriesHasLabel(t_window, 0) \/ ~SeriesHasLabel(t_window, -1)
    THEN RefineRaised("KeyError")
    ELSE RefineOnGrid(df_a, df_b, idx_hint,
             date_range(SeriesGetItem(t_window, 0),
                        SeriesGetItem(t_window, -1),
                        (Len(t_window.values) - 1)
                          * (IF upsample < 2 THEN 2 ELSE upsample) + 1))

RefineAround(df_a, df_b, times, idx_hint, window, upsample) ==
    RefineWindow(df_a, df_b, times, idx_hint, upsample,
                 Max2(0, idx_hint - window),
                 Min2(Len(df_a.time) - 1, idx_hint + window),
                 SeriesSlice(times, Max2(0, idx_hint - window),
                             Min2(Len(df_a.time) - 1, idx_hint + window)))

\* the absent hint (idx_hint=None)
NoHint == -1

\* refine_pair(df_a, df_b, idx_hint, window, upsample)
refine_pair(df_a, df_b, hint, window, upsample) ==
    IF df_a.time # df_b.time
    THEN RefineRaised("refine_pair requires identical time grids")
    ELSE RefineAround(df_a, df_b, SeriesOf(df_a.time),
                      IF hint = NoHint THEN _coarse_min_index(df_a, df_b) ELSE hint,
                      window, upsample)

RefinedColumns ==
    <<"a", "b", "t_index", "t_idx_refined", "tca_utc", "dca_km", "vrel_kms">>

\* the loop of refine_candidates over the candidate rows, in table order:
\* the rows built so far, or the error of the first refine_pair that raises
RECURSIVE RefineRows(_, _, _, _)
RefineRows(st, cands, window, upsample) ==
    IF cands = <<>> THEN [raised |-> FALSE, error |-> "", rows |-> <<>>]
    ELSE LET row == Head(cands)
             res == refine_pair(st.df[row.a], st.df[row.b], row.t_index,
                                window, upsample)
         IN IF res.raised THEN [raised |-> TRUE, error |-> res.error, rows |-> <<>>]
            ELSE LET rest == RefineRows(st, Tail(cands), window, upsample)
                 IN IF rest.raised THEN rest
                    ELSE [raised |-> FALSE, error |-> "",
                          rows |-> << [a |-> row.a, b |-> row.b,
                                       t_index |-> row.t_index,
                                       t_idx_refined |-> res.idx_refined,
                                       tca_utc |-> res.tca_utc,
                                       dca_km |-> round6(res.dca_km),
                                       vrel_kms |-> round6(res.vrel_kms)] >>
                                   \o rest.rows]

\* (mutant of refine_candidates: the rows are returned in candidate order)
refine_candidates_unsorted(st, candidates_df, window, upsample) ==
    LET loop == RefineRows(st, candidates_df.rows, window, upsample)
    IN IF loop.raised \/ loop.rows = <<>>
       THEN [status |-> "raised", error |-> "KeyError",
             candidates |-> candidates_df,
             window |-> window, upsample |-> upsample]
       ELSE [status |-> "returned", error |-> "",
             candidates |-> candidates_df,
             window |-> window, upsample |-> upsample,
             table |-> DataFrameOfRows(loop.rows, RefinedColumns)]

\* refine_candidates(states, candidates_df, window, upsample): the outcome
refine_candidates(st, candidates_df, window, upsample) ==
    LET loop == RefineRows(st, candidates_df.rows, window, upsample)
    IN IF loop.raised
       THEN [status |-> "raised", error |-> loop.error,
             candidates |-> candidates_df,
             window |-> window, upsample |-> upsample]
       ELSE LET sorted == sort_values(DataFrameOfRows(loop.rows, RefinedColumns),
                                      <<"dca_km", "a", "b">>)
            IN IF sorted.raised
               THEN [status |-> "raised", error |-> sorted.error,
                     candidates |-> candidates_df,
                     window |-> window, upsample |-> upsample]
               ELSE [status |-> "returned", error |-> "",
                     candidates |-> candidates_df,
                     window |-> window, upsample |-> upsample,
                     table |-> sorted.df]

(***************************************************************************)
(* The trajectory stores of the model.  An object moves uniformly from p0  *)
(* with velocity vel; its samples at the steps `bad` selects are failed    *)
(* propagations (NaN in all six components, as propagate_group writes      *)
(* them).                                                                  *)
(***************************************************************************)
\* the mappings: the keys in insertion order
KeyOrders == { <<>>, <<"A">>, <<"A", "B">>, <<"B", "A">>,
               <<"A", "B", "C">>, <<"C", "B", "A">> }

StartPositions == { <<0, 0, 0>>, <<40, 0, 0>>, <<20, 18, 0>> }
Velocities == { <<0, 0, 0>>, <<-1, 0, 0>> }
BadKinds == {"none", "first", "last", "all"}

RichCatalogue == [p0 : StartPositions, vel : Velocities, bad : BadKinds]
LeanCatalogue == [p0 : StartPositions, vel : {<<0, 0, 0>>}, bad : {"none", "all"}]

\* the screening thresholds, in length units
Thresholds == {18, 19, 27}

\* a grid of T samples: uniform, or with its last interval doubled
GridShapes(T) == IF T >= 3 THEN {"uniform", "uneven"} ELSE {"uniform"}
GridTimes(T, shape) ==
    [k \in 1..T |-> (k - 1) * StepS
                    + (IF shape = "uneven" /\ k = T THEN StepS ELSE 0)]

\* how the grid of one trajectory deviates from the common grid
Deviations(keys) ==
    {[who |-> 0, kind |-> "none"]}
    \cup (IF Len(keys) >= 2
          THEN [who : 1..Len(keys), kind : {"short", "shifted"}]
          ELSE {})
Deviate(times, kind) ==
    IF kind = "short" THEN SubSeq(times, 1, Len(times) - 1)
    ELSE IF kind = "shifted"
    THEN [k \in 1..Len(times) |-> times[k] + (IF k = Len(times) THEN 1 ELSE 0)]
    ELSE times

IsBad(bad, k, T) ==
    \/ bad = "all"
    \/ bad = "first" /\ k = 1
    \/ bad = "last" /\ k = T

Trajectory(times, o) ==
    LET T == Len(times)
        pos(c) == [k \in 1..T |-> IF IsBad(o.bad, k, T) THEN NaN
                                  ELSE Fl(o.p0[c] + o.vel[c] * times[k])]
        vel(c) == [k \in 1..T |-> IF IsBad(o.bad, k, T) THEN NaN
                                  ELSE Fl(o.vel[c])]
    IN [time |-> times,
        rx_km |-> pos(1), ry_km |-> pos(2), rz_km |-> pos(3),
        vx_kms |-> vel(1), vy_kms |-> vel(2), vz_kms |-> vel(3)]

Catalogue(keys, dev) ==
    IF Len(keys) <= 2 /\ dev.who = 0 THEN RichCatalogue ELSE LeanCatalogue

Store(keys, T, shape, dev, objs) ==
    [keys |-> keys,
     df |-> [n \in {keys[i] : i \in 1..Len(keys)} |->
               Trajectory(IF dev.who > 0 /\ keys[dev.who] = n
                          THEN Deviate(GridTimes(T, shape), dev.kind)
                          ELSE GridTimes(T, shape),
                          objs[n])]]

NotCalled == [status |-> "not_called"]

\* no command-line process is running
NoProcess == [pc |-> "none"]

Init ==
    /\ \E keys \in KeyOrders, T \in 1..MaxT :
         \E shape \in GridShapes(T), dev \in Deviations(keys) :
           \E objs \in [{keys[i] : i \in 1..Len(keys)} -> Catalogue(keys, dev)] :
             states = Store(keys, T, shape, dev, objs)
    /\ screen = NotCalled
    /\ refined = NotCalled
    /\ pair = NotCalled
    /\ proc = NoProcess
    /\ plan = NotCalled
    /\ comp = NotCalled
    /\ prop = NotCalled

\* a call of coarse_screen on the store
CoarseScreen ==
    /\ screen = NotCalled
    /\ \E s \in Thresholds : screen' = coarse_screen(states, Fl(s))
    /\ UNCHANGED <<states, refined, pair, proc, plan, comp, prop>>

\* the candidate tables a caller may pass on: the screened table as it is,
\* or its rows in the opposite order
Reversed(df) ==
    [columns |-> df.columns,
     rows |-> [i \in 1..Len(df.rows) |-> df.rows[Len(df.rows) + 1 - i]]]
CandidateOrders(df) == {df, Reversed(df)}

\* a call of refine_candidates on the store and the screened table
RefineCandidates ==
    /\ screen.status = "returned"
    /\ refined = NotCalled
    /\ \E cands \in CandidateOrders(screen.table) :
         \E W \in 0..MaxWindow, U \in 1..MaxUpsample :
           refined' = refine_candidates(states, cands, W, U)
    /\ UNCHANGED <<states, screen, pair, proc, plan, comp, prop>>

Next == CoarseScreen \/ RefineCandidates

Spec == Init /\ [][Next]_vars

(***************************************************************************)
(* A direct call of refine_pair on the two trajectories of a store, with   *)
(* the hint absent or any index of the grid.                               *)
(***************************************************************************)
Hints(df) == {NoHint} \cup (0..(Len(df.time) - 1))

PairCall(a, b, hint, W, U) ==
    [status |-> "called", a |-> a, b |-> b, hint |-> hint,
     window |-> W, upsample |-> U,
     res |-> refine_pair(states.df[a], states.df[b], hint, W, U)]

RefinePair ==
    /\ pair = NotCalled
    /\ \E hint \in Hints(states.df[states.keys[1]]) :
         \E W \in 0..MaxWindow, U \in 1..MaxUpsample :
           pair' = PairCall(states.keys[1], states.keys[2], hint, W, U)
    /\ UNCHANGED <<states, screen, refined, proc, plan, comp, prop>>

NextPair == RefinePair

\* the stores of two trajectories
InitPair == Init /\ Len(states.keys) = 2

SpecPair == InitPair /\ [][NextPair]_vars

(***************************************************************************)
(* cli.py: one run of the command line.  main parses the arguments,        *)
(* validates the time window and dispatches the handler of the subcommand; *)
(* cmd_screen, cmd_refine and cmd_report load the TLE file, propagate,     *)
(* screen, refine and write, in this order.  proc.pc is the position of    *)
(* the process, proc.calls the stages it has called so far, proc.exit the  *)
(* message it died with, proc.out the table it wrote.                      *)
(*                                                                         *)
(* A command-line time is the empty string, a string that is no date, or   *)
(* the ISO form of an instant t.                                           *)
(***************************************************************************)
ArgEmpty == [kind |-> "empty", t |-> 0]
ArgGarbage == [kind |-> "garbage", t |-> 0]
ArgIso(t) == [kind |-> "iso", t |-> t]
ArgTimes == {ArgEmpty, ArgGarbage} \cup {ArgIso((k - 1) * StepS) : k \in 1..MaxT}

Commands == {"screen", "refine", "report"}

\* the truth value of a string: false for the empty one
Truthy(arg) == arg.kind # "empty"

\* parse_iso_utc: pd.to_datetime raises on a string that is no date and gives
\* NaT (not-a-time) for the empty string
parse_iso_utc(arg) ==
    [raised |-> arg.kind = "garbage", nat |-> arg.kind = "empty", t |-> arg.t]

\* t1 <= t0 on parsed instants: false as soon as one is NaT
TimeLessEq(t1, t0) == ~t1.nat /\ ~t0.nat /\ t1.t <= t0.t

InvalidDate == "Invalid date format. Use ISO UTC like 2025-08-17T00:00:00Z."
InvalidWindow == "Invalid window: --end must be after --start."

\* _parse_window_or_die: the message of the SystemExit, "" when it returns
_parse_window_or_die(start, end) ==
    IF parse_iso_utc(start).raised \/ parse_iso_utc(end).raised THEN InvalidDate
    ELSE IF TimeLessEq(parse_iso_utc(end), parse_iso_utc(start)) THEN InvalidWindow
    ELSE ""

\* time_grid: raises when a time does not parse, when t1 <= t0, and (in
\* pd.date_range) when a time is NaT
TimeGridRaises(start, end) ==
    \/ parse_iso_utc(start).raised \/ parse_iso_utc(end).raised
    \/ parse_iso_utc(start).nat \/ parse_iso_utc(end).nat
    \/ TimeLessEq(parse_iso_utc(end), parse_iso_utc(start))

\* int(step_s) of a step given in milliseconds: the whole seconds of it
IntSeconds(step_s) == step_s \div 1000

\* time_grid: the instants from t0 up to t1 every int(step_s) seconds
time_grid(t0, t1, step_s) ==
    [k \in 1..((t1 - t0) \div IntSeconds(step_s) + 1) |->
       t0 + (k - 1) * IntSeconds(step_s)]

NoOutput == [written |-> FALSE, table |-> DataFrameOfColumns(<<>>)]
Written(df) == [written |-> TRUE, table |-> df]

NewProcess ==
    [pc |-> "main", cmd |-> "", start |-> ArgEmpty, end |-> ArgEmpty,
     tles_exists |-> FALSE, made_dir |-> FALSE, calls |-> <<>>, exit |-> "",
     out |-> NoOutput]

NoStates == [keys |-> <<>>, df |-> <<>>]

Died(p, pc, msg) == [p EXCEPT !.pc = pc, !.exit = msg]
Called(p, pc, stage) == [p EXCEPT !.pc = pc, !.calls = Append(p.calls, stage)]

\* main, after parse_args: the window check when both times are truthy, then
\* the dispatch of the handler
main(cmd, start, end, exists) ==
    IF Truthy(start) /\ Truthy(end) /\ _parse_window_or_die(start, end) # ""
    THEN [NewProcess EXCEPT !.pc = "exited", !.cmd = cmd, !.start = start,
                            !.end = end, !.tles_exists = exists,
                            !.exit = _parse_window_or_die(start, end)]
    ELSE [NewProcess EXCEPT !.pc = "dispatched", !.cmd = cmd, !.start = start,
                            !.end = end, !.tles_exists = exists]

Main ==
    /\ proc.pc = "main"
    /\ \E cmd \in Commands, start \in ArgTimes, end \in ArgTimes, exists \in BOOLEAN :
         proc' = main(cmd, start, end, exists)
    /\ UNCHANGED <<states, screen, refined, pair, plan, comp, prop>>

\* the handler up to load_tles; cmd_report first makes the output directory
\* and parses both times
handler_start(p) ==
    IF p.cmd = "report" /\ (parse_iso_utc(p.start).raised \/ parse_iso_utc(p.end).raised)
    THEN [Died(p, "crashed", "ValueError") EXCEPT !.made_dir = TRUE]
    ELSE IF ~p.tles_exists
    THEN [Called(Died(p, "crashed", "FileNotFoundError"), "crashed", "load_tles")
            EXCEPT !.made_dir = (p.cmd = "report")]
    ELSE [Called(p, "loaded", "load_tles") EXCEPT !.made_dir = (p.cmd = "report")]

LoadTles ==
    /\ proc.pc = "dispatched"
    /\ proc' = handler_start(proc)
    /\ UNCHANGED <<states, screen, refined, pair, plan, comp, prop>>

\* the store propagate_group builds: every trajectory on the grid of the run
CliStore(keys, times, objs) ==
    [keys |-> keys,
     df |-> [n \in {keys[i] : i \in 1..Len(keys)} |-> Trajectory(times, objs[n])]]

\* propagate_group: fails in time_grid, else a store on the grid of the run
Propagate ==
    /\ proc.pc = "loaded"
    /\ IF TimeGridRaises(proc.start, proc.end)
       THEN /\ proc' = Called(Died(proc, "crashed", "ValueError"), "crashed",
                              "propagate_group")
            /\ UNCHANGED states
       ELSE /\ proc' = Called(proc, "propagated", "propagate_group")
            /\ \E keys \in KeyOrders :
                 \E objs \in [{keys[i] : i \in 1..Len(keys)} -> LeanCatalogue] :
                   states' = CliStore(keys, time_grid(proc.start.t, proc.end.t, StepS * 1000), objs)
    /\ UNCHANGED <<screen, refined, pair, plan, comp, prop>>

\* coarse = coarse_screen(states, screen_km=args.screen_km)
screened(p, coarse) ==
    IF coarse.status = "raised"
    THEN Called(Died(p, "crashed", "ValueError"), "crashed", "coarse_screen")
    ELSE Called(p, IF p.cmd = "screen" THEN "writing" ELSE "screened", "coarse_screen")

CliScreen ==
    /\ proc.pc = "propagated"
    /\ \E s \in Thresholds :
         /\ screen' = coarse_screen(states, Fl(s))
         /\ proc' = screened(proc, coarse_screen(states, Fl(s)))
    /\ UNCHANGED <<states, refined, pair, plan, comp, prop>>

\* coarse.empty
IsEmptyFrame(df) == df.rows = <<>> \/ df.columns = <<>>

\* (mutant of NeedsRefinement: refine_candidates is called on every table)
NeedsRefinement_always(coarse) == TRUE

\* the else branch of `if coarse.empty`
NeedsRefinement(coarse) == ~IsEmptyFrame(coarse)

\* cmd_refine and cmd_report after screening: the empty table with the
\* refined columns when no candidate came back, else refine_candidates
CliRefine ==
    /\ proc.pc = "screened"
    /\ IF NeedsRefinement(screen.table)
       THEN \E W \in 0..MaxWindow, U \in 1..MaxUpsample :
              /\ refined' = refine_candidates(states, screen.table, W, U)
              /\ proc' = IF refine_candidates(states, screen.table, W, U).status = "raised"
                         THEN Called(Died(proc, "crashed", "KeyError"), "crashed",
                                     "refine_candidates")
                         ELSE Called(proc, "writing", "refine_candidates")
       ELSE /\ refined' = refined
            /\ proc' = [proc EXCEPT !.pc = "writing"]
    /\ UNCHANGED <<states, screen, pair, plan, comp, prop>>

\* the table a handler writes: the candidates for screen, else the refined
\* table, which is the empty table of cli.py when refinement was skipped
TableToWrite ==
    IF proc.cmd = "screen" THEN screen.table
    ELSE IF refined.status = "returned" THEN refined.table
    ELSE DataFrameOfColumns(RefinedColumns)

\* out.to_csv(...): the end of cmd_screen and cmd_refine; cmd_report goes on
\* to build_report, which is not part of the model
CliWrite ==
    /\ proc.pc = "writing"
    /\ proc' = [proc EXCEPT !.pc = "done", !.made_dir = TRUE,
                            !.out = Written(TableToWrite)]
    /\ UNCHANGED <<states, screen, refined, pair, plan, comp, prop>>

NextCli == Main \/ LoadTles \/ Propagate \/ CliScreen \/ CliRefine \/ CliWrite

InitCli ==
    /\ states = NoStates
    /\ screen = NotCalled
    /\ refined = NotCalled
    /\ pair = NotCalled
    /\ proc = NewProcess
    /\ plan = NotCalled
    /\ comp = NotCalled
    /\ prop = NotCalled

SpecCli == InitCli /\ [][NextCli]_vars

(***************************************************************************)
(* dv_planner.py: the along-track delta-v suggestions for a refined table. *)
(* Speeds of the planner are in units of 10^-7 m/s and lengths in units of *)
(* 10^-7 km, so that dv = target * 1000 / dt and achieved = dv * dt / 1000 *)
(* keep the source's factors; the inputs of the model are chosen so that   *)
(* both quotients are whole numbers of units.                              *)
(***************************************************************************)
\* _parse_time(ts): the instant of an ISO timestamp
_parse_time(ts) == ts.mm * 60 + ts.ss

Abs(x) == IF x < 0 THEN 0 - x ELSE x

\* the signs of the loop of _suggest_for_actor, prograde then retrograde
BurnSigns == <<1, -1>>

\* (mutant of _suggest_for_actor: only the prograde burn is suggested)
_suggest_for_actor_prograde_only(a, b, tca_utc, plan_time_iso, target_dca_km, max_dv_mps, actor) ==
    LET dt_s == _parse_time(tca_utc) - _parse_time(plan_time_iso)
    IN IF dt_s <= 0 THEN <<>>
       ELSE LET dv_needed_mps == RoundDiv(target_dca_km * 1000, dt_s)
                dv_cap_mps == Min2(Abs(dv_needed_mps), max_dv_mps)
                achieved_km == RoundDiv(dv_cap_mps * dt_s, 1000)
            IN [i \in 1..1 |->
                  [a |-> a, b |-> b, actor |-> actor,
                   t_plan_utc |-> isoformat(_parse_time(plan_time_iso)),
                   tca_utc |-> isoformat(_parse_time(tca_utc)),
                   dt_to_tca_s |-> dt_s,
                   target_dca_km |-> Fl(target_dca_km),
                   suggested_dv_mps |-> round6(Fl(BurnSigns[i] * dv_cap_mps)),
                   achieved_dca_km |-> round6(Fl(achieved_km)),
                   note |-> "toy heuristic"]]

\* (mutant of _suggest_for_actor: the needed delta-v is not capped)
_suggest_for_actor_uncapped(a, b, tca_utc, plan_time_iso, target_dca_km, max_dv_mps, actor) ==
    LET dt_s == _parse_time(tca_utc) - _parse_time(plan_time_iso)
    IN IF dt_s <= 0 THEN <<>>
       ELSE LET dv_needed_mps == RoundDiv(target_dca_km * 1000, dt_s)
                dv_cap_mps == Abs(dv_needed_mps)
                achieved_km == RoundDiv(dv_cap_mps * dt_s, 1000)
            IN [i \in 1..2 |->
                  [a |-> a, b |-> b, actor |-> actor,
                   t_plan_utc |-> isoformat(_parse_time(plan_time_iso)),
                   tca_utc |-> isoformat(_parse_time(tca_utc)),
                   dt_to_tca_s |-> dt_s,
                   target_dca_km |-> Fl(target_dca_km),
                   suggested_dv_mps |-> round6(Fl(BurnSigns[i] * dv_cap_mps)),
                   achieved_dca_km |-> round6(Fl(achieved_km)),
                   note |-> "toy heuristic"]]

\* _suggest_for_actor: no suggestion for an encounter at or before the plan
\* time, else the capped burn with either sign, rounded to 6 decimals
_suggest_for_actor(a, b, tca_utc, plan_time_iso, target_dca_km, max_dv_mps, actor) ==
    LET dt_s == _parse_time(tca_utc) - _parse_time(plan_time_iso)
    IN IF dt_s <= 0 THEN <<>>
       ELSE LET dv_needed_mps == RoundDiv(target_dca_km * 1000, dt_s)
                dv_cap_mps == Min2(Abs(dv_needed_mps), max_dv_mps)
                achieved_km == RoundDiv(dv_cap_mps * dt_s, 1000)
            IN [i \in 1..2 |->
                  [a |-> a, b |-> b, actor |-> actor,
                   t_plan_utc |-> isoformat(_parse_time(plan_time_iso)),
                   tca_utc |-> isoformat(_parse_time(tca_utc)),
                   dt_to_tca_s |-> dt_s,
                   target_dca_km |-> Fl(target_dca_km),
                   suggested_dv_mps |-> round6(Fl(BurnSigns[i] * dv_cap_mps)),
                   achieved_dca_km |-> round6(Fl(achieved_km)),
                   note |-> "toy heuristic"]]

PlanColumns ==
    <<"a", "b", "actor", "t_plan_utc", "tca_utc", "dt_to_tca_s",
      "target_dca_km", "suggested_dv_mps", "achieved_dca_km", "note">>

\* the loop of plan_dv_for_refined over the refined rows, in table order
RECURSIVE PlanRows(_, _, _, _)
PlanRows(rows, plan_time_iso, target_dca_km, max_dv_mps) ==
    IF rows = <<>> THEN <<>>
    ELSE LET r == Head(rows)
         IN _suggest_for_actor(r.a, r.b, r.tca_utc, plan_time_iso,
                               target_dca_km, max_dv_mps, "a")
            \o _suggest_for_actor(r.a, r.b, r.tca_utc, plan_time_iso,
                                  target_dca_km, max_dv_mps, "b")
            \o PlanRows(Tail(rows), plan_time_iso, target_dca_km, max_dv_mps)

\* plan_dv_for_refined(refined_df, plan_time_iso, target_dca_km, max_dv_mps):
\* the suggestions of every row, sorted
plan_dv_for_refined(refined_df, plan_time_iso, target_dca_km, max_dv_mps) ==
    [status |-> "returned",
     refined_df |-> refined_df,
     plan_time_iso |-> plan_time_iso,
     target_dca_km |-> target_dca_km,
     max_dv_mps |-> max_dv_mps,
     table |-> sort_values(
                 [columns |-> PlanColumns,
                  rows |-> PlanRows(refined_df.rows, plan_time_iso,
                                    target_dca_km, max_dv_mps)],
                 <<"tca_utc", "a", "b", "actor", "suggested_dv_mps">>).df]

\* the refined tables handed to the planner: up to MaxPlanRows rows of the
\* pairs (A, B) and (A, C) with their times of closest approach
MaxPlanRows == 2
TcaTimes == {0, 1000, 2000}
PlanTimes == {0, 1000, 1500}
TargetsKm == {2, 6, 40000}
MaxDvs == {0, 16, 10000}

RefinedRow(b, t) ==
    [a |-> "A", b |-> b, t_index |-> 0, t_idx_refined |-> 0,
     tca_utc |-> isoformat(t), dca_km |-> Fl(10), vrel_kms |-> Fl(0)]

RefinedTables ==
    {[columns |-> RefinedColumns, rows |-> rows] :
       rows \in UNION {[1..n -> {RefinedRow(b, t) : b \in {"B", "C"}, t \in TcaTimes}] :
                         n \in 0..MaxPlanRows}}

\* a call of plan_dv_for_refined
PlanDv ==
    /\ plan = NotCalled
    /\ \E df \in RefinedTables, t \in PlanTimes, target \in TargetsKm, cap \in MaxDvs :
         plan' = plan_dv_for_refined(df, isoformat(t), target, cap)
    /\ UNCHANGED <<states, screen, refined, pair, proc, comp, prop>>

NextDv == PlanDv

InitDv ==
    /\ states = NoStates
    /\ screen = NotCalled
    /\ refined = NotCalled
    /\ pair = NotCalled
    /\ proc = NoProcess
    /\ plan = NotCalled
    /\ comp = NotCalled
    /\ prop = NotCalled

SpecDv == InitDv /\ [][NextDv]_vars

(***************************************************************************)
(* propagate.py: a direct call of propagate_group on a TLE table, a start  *)
(* and an end time and a step in milliseconds.  A satellite of the table   *)
(* is its name with the behaviour of its propagator: where it starts, how  *)
(* it moves, and at which steps sgp4 reports an error.                     *)
(***************************************************************************)
\* sat.sgp4 at step j (1-based) of the grid: the error code and the state
sgp4(sat, j, times) ==
    [e |-> IF IsBad(sat.bad, j, Len(times)) THEN 1 ELSE 0,
     r |-> [c \in 1..3 |-> Fl(sat.p0[c] + sat.vel[c] * times[j])],
     v |-> [c \in 1..3 |-> Fl(sat.vel[c])]]

NaN3 == <<NaN, NaN, NaN>>

\* (mutant of PropagateSteps: a failed step is left out of the lists)
RECURSIVE PropagateSteps_skip_failed(_, _, _)
PropagateSteps_skip_failed(sat, times, n) ==
    IF n = 0 THEN [r_list |-> <<>>, v_list |-> <<>>, err_any |-> FALSE]
    ELSE LET before == PropagateSteps_skip_failed(sat, times, n - 1)
             s == sgp4(sat, n, times)
         IN IF s.e # 0
            THEN [before EXCEPT !.err_any = TRUE]
            ELSE [r_list |-> Append(before.r_list, s.r),
                  v_list |-> Append(before.v_list, s.v),
                  err_any |-> before.err_any]

\* the loop over the grid for one satellite, after n steps: the lists of
\* positions and velocities, not-a-number where sgp4 failed
RECURSIVE PropagateSteps(_, _, _)
PropagateSteps(sat, times, n) ==
    IF n = 0 THEN [r_list |-> <<>>, v_list |-> <<>>, err_any |-> FALSE]
    ELSE LET before == PropagateSteps(sat, times, n - 1)
             s == sgp4(sat, n, times)
         IN IF s.e # 0
            THEN [r_list |-> Append(before.r_list, NaN3),
                  v_list |-> Append(before.v_list, NaN3),
                  err_any |-> TRUE]
            ELSE [r_list |-> Append(before.r_list, s.r),
                  v_list |-> Append(before.v_list, s.v),
                  err_any |-> before.err_any]

\* arr[:, c]
Column(list, c) == [k \in 1..Len(list) |-> list[k][c]]

\* the trajectory DataFrame of one satellite
PropagateOne(sat, times) ==
    [time |-> times,
     rx_km |-> Column(PropagateSteps(sat, times, Len(times)).r_list, 1),
     ry_km |-> Column(PropagateSteps(sat, times, Len(times)).r_list, 2),
     rz_km |-> Column(PropagateSteps(sat, times, Len(times)).r_list, 3),
     vx_kms |-> Column(PropagateSteps(sat, times, Len(times)).v_list, 1),
     vy_kms |-> Column(PropagateSteps(sat, times, Len(times)).v_list, 2),
     vz_kms |-> Column(PropagateSteps(sat, times, Len(times)).v_list, 3)]

\* the row of df_tles with the given name
TleRow(df_tles, name) == CHOOSE i \in 1..Len(df_tles) : df_tles[i].name = name

\* propagate_group(df_tles, start_iso, end_iso, step_s): the error of
\* time_grid, or the store of the trajectories on the common grid
propagate_group(df_tles, start_iso, end_iso, step_s) ==
    IF TimeGridRaises(start_iso, end_iso)
    THEN [status |-> "raised", error |-> "ValueError",
          df_tles |-> df_tles, start |-> start_iso, end |-> end_iso,
          step_s |-> step_s, out |-> NoStates]
    ELSE [status |-> "returned", error |-> "",
          df_tles |-> df_tles, start |-> start_iso, end |-> end_iso,
          step_s |-> step_s,
          out |-> [keys |-> [i \in 1..Len(df_tles) |-> df_tles[i].name],
                   df |-> [n \in {df_tles[i].name : i \in 1..Len(df_tles)} |->
                             PropagateOne(df_tles[TleRow(df_tles, n)].sat,
                                          time_grid(start_iso.t, end_iso.t, step_s))]]]

\* the inputs of the direct calls: TLE tables of up to two satellites, the
\* window ends and the steps (20 s, 20.5 s, 60 s)
TleNames == { <<>>, <<"A">>, <<"A", "B">>, <<"B", "A">> }
TleCatalogue == [p0 : {<<0, 0, 0>>, <<40, 0, 0>>}, vel : {<<-1, 0, 0>>}, bad : BadKinds]
TleTables ==
    UNION {{[i \in 1..Len(names) |-> [name |-> names[i], sat |-> sats[i]]] :
              sats \in [1..Len(names) -> TleCatalogue]} : names \in TleNames}
StartTimes == {0, 20}
EndTimes == {0, 20, 50, 60, 300}
StepsMs == {20000, 20500, 60000}

\* a call of propagate_group
PropagateGroup ==
    /\ prop = NotCalled
    /\ \E df_tles \in TleTables, t0 \in StartTimes, t1 \in EndTimes, step_s \in StepsMs :
         prop' = propagate_group(df_tles, ArgIso(t0), ArgIso(t1), step_s)
    /\ UNCHANGED <<states, screen, refined, pair, proc, plan, comp>>

NextProp == PropagateGroup

InitProp ==
    /\ states = NoStates
    /\ screen = NotCalled
    /\ refined = NotCalled
    /\ pair = NotCalled
    /\ proc = NoProcess
    /\ plan = NotCalled
    /\ comp = NotCalled
    /\ prop = NotCalled

SpecProp == InitProp /\ [][NextProp]_vars

(***************************************************************************)
(* refine.py: a direct call of _interp_component on one component y        *)
(* sampled on a uniform coarse grid, interpolated to the grid refined U    *)
(* times.  The call record keeps y as it was passed and as it is after the *)
(* call (the fill is done in place).                                       *)
(***************************************************************************)
\* longest component
MaxLen == 4
Samples == {NaN, Inf, Fl(0), Fl(10), Fl(40)}
ComponentSeries == UNION {[1..n -> Samples] : n \in 1..MaxLen}

CoarseSeconds(n) == [k \in 1..n |-> (k - 1) * StepS]
FineSeconds(n, U) == date_range(0, (n - 1) * StepS, (n - 1) * U + 1)

InterpCall(y, U) ==
    [status |-> "called", y |-> y, upsample |-> U,
     t_s |-> CoarseSeconds(Len(y)),
     t_new_s |-> FineSeconds(Len(y), U),
     y_after |-> InPlaceFill(y),
     out |-> _interp_component(CoarseSeconds(Len(y)), y, FineSeconds(Len(y), U))]

InterpComponent ==
    /\ comp = NotCalled
    /\ \E y \in ComponentSeries, U \in 2..MaxUpsample : comp' = InterpCall(y, U)
    /\ UNCHANGED <<states, screen, refined, pair, proc, plan, prop>>

NextComp == InterpComponent

InitComp ==
    /\ states = NoStates
    /\ screen = NotCalled
    /\ refined = NotCalled
    /\ pair = NotCalled
    /\ proc = NoProcess
    /\ plan = NotCalled
    /\ comp = NotCalled
    /\ prop = NotCalled

SpecComp == InitComp /\ [][NextComp]_vars

(***************************************************************************)
(* The inputs after a call.  numpy arrays are shared or copied: a memory   *)
(* is a sequence of arrays and an array is named by its position in it.    *)
(* df[c].to_numpy() is the array of the column itself; astype(float) makes *)
(* a new array; _interp_component fills the array it is given in place.    *)
(***************************************************************************)
\* (mutant of astype_float: astype(float, copy=False), the array itself)
astype_float_nocopy(mem, id) == [mem |-> mem, id |-> id]

\* ndarray.astype(float): a new array with the values of the array id
astype_float(mem, id) == [mem |-> Append(mem, mem[id]), id |-> Len(mem) + 1]

\* the memory when _interp_component has run on the array id
FillInPlace(mem, id) == [mem EXCEPT ![id] = InPlaceFill(mem[id])]

\* the column y of a DataFrame (array 1 of the memory) after
\* _interp_component(t_s, df[c].to_numpy().astype(float), t_new_s)
ColumnAfterInterp(y) ==
    FillInPlace(astype_float(<<y>>, 1).mem, astype_float(<<y>>, 1).id)[1]

\* the DataFrame df after _interp_state(df, t_new)
_interp_state_after(df) ==
    [time |-> df.time,
     rx_km |-> ColumnAfterInterp(df.rx_km),
     ry_km |-> ColumnAfterInterp(df.ry_km),
     rz_km |-> ColumnAfterInterp(df.rz_km),
     vx_kms |-> ColumnAfterInterp(df.vx_kms),
     vy_kms |-> ColumnAfterInterp(df.vy_kms),
     vz_kms |-> ColumnAfterInterp(df.vz_kms)]

\* refine_pair gets as far as _interp_state: the grids agree, the window
\* holds two samples or more and t_window[0], t_window[-1] are found
ReachesInterp(df_a, df_b, idx_hint, window) ==
    /\ df_a.time = df_b.time
    /\ Min2(Len(df_a.time) - 1, idx_hint + window) > Max2(0, idx_hint - window)
    /\ SeriesHasLabel(SeriesSlice(SeriesOf(df_a.time), Max2(0, idx_hint - window),
                                  Min2(Len(df_a.time) - 1, idx_hint + window)), 0)
    /\ SeriesHasLabel(SeriesSlice(SeriesOf(df_a.time), Max2(0, idx_hint - window),
                                  Min2(Len(df_a.time) - 1, idx_hint + window)), -1)

\* the store after refine_pair(st[a], st[b], idx_hint, window, upsample)
refine_pair_after(st, a, b, hint, window) ==
    IF st.df[a].time = st.df[b].time
       /\ ReachesInterp(st.df[a], st.df[b],
                        IF hint = NoHint THEN _coarse_min_index(st.df[a], st.df[b])
                        ELSE hint, window)
    THEN [st EXCEPT !.df = [n \in DOMAIN st.df |->
                              IF n \in {a, b} THEN _interp_state_after(st.df[n])
                              ELSE st.df[n]]]
    ELSE st

\* the store after the loop of refine_candidates, which ends at the first
\* refine_pair that raises
RECURSIVE refine_candidates_after(_, _, _, _)
refine_candidates_after(st, cands, window, upsample) ==
    IF cands = <<>> THEN st
    ELSE IF refine_pair(st.df[Head(cands).a], st.df[Head(cands).b],
                        Head(cands).t_index, window, upsample).raised
    THEN refine_pair_after(st, Head(cands).a, Head(cands).b, Head(cands).t_index, window)
    ELSE refine_candidates_after(
             refine_pair_after(st, Head(cands).a, Head(cands).b,
                               Head(cands).t_index, window),
             Tail(cands), window, upsample)

(***************************************************************************)
(* Sequences of calls on one store of three trajectories: coarse_screen,   *)
(* refine_candidates on the screened table in either row order, and the    *)
(* direct calls refine_pair and _interp_state, each as often as the caller *)
(* likes.  screen and refined hold the latest table of their call, pair    *)
(* and comp the latest direct call.                                        *)
(***************************************************************************)
FrameCatalogue ==
    [p0 : {<<0, 0, 0>>, <<20, 18, 0>>}, vel : {<<0, 0, 0>>}, bad : {"none", "first"}]

InitFrame ==
    /\ \E objs \in [{"A", "B", "C"} -> FrameCatalogue] :
         states = Store(<<"A", "B", "C">>, MaxT, "uniform",
                        [who |-> 0, kind |-> "none"], objs)
    /\ screen = NotCalled
    /\ refined = NotCalled
    /\ pair = NotCalled
    /\ proc = NoProcess
    /\ plan = NotCalled
    /\ comp = NotCalled
    /\ prop = NotCalled

\* coarse_screen reads the columns into an array of its own
FrameScreen ==
    /\ \E s \in Thresholds : screen' = coarse_screen(states, Fl(s))
    /\ refined' = NotCalled
    /\ UNCHANGED <<states, pair, proc, plan, comp, prop>>

FrameRefineCandidates ==
    /\ screen.status = "returned"
    /\ \E cands \in CandidateOrders(screen.table) :
         \E W \in 0..MaxWindow, U \in {MaxUpsample} :
           /\ refined' = refine_candidates(states, cands, W, U)
           /\ states' = refine_candidates_after(states, cands.rows, W, U)
    /\ UNCHANGED <<screen, pair, proc, plan, comp, prop>>

FrameRefinePair ==
    /\ \E a \in {"A"}, hint \in {NoHint, 0} :
         \E W \in 0..MaxWindow, U \in {MaxUpsample} :
           /\ pair' = PairCall(a, "C", hint, W, U)
           /\ states' = refine_pair_after(states, a, "C", hint, W)
    /\ comp' = NotCalled
    /\ UNCHANGED <<screen, refined, proc, plan, prop>>

\* _interp_state(df, t_new) on one trajectory and its grid refined U times
InterpStateCall(n, U) ==
    [status |-> "called", name |-> n, upsample |-> U,
     before |-> states.df[n],
     out |-> _interp_state(states.df[n],
                           date_range(states.df[n].time[1],
                                      states.df[n].time[Len(states.df[n].time)],
                                      (Len(states.df[n].time) - 1) * U + 1))]

FrameInterpState ==
    /\ \E n \in {"A", "B", "C"}, U \in {MaxUpsample} :
         /\ comp' = InterpStateCall(n, U)
         /\ states' = [states EXCEPT !.df[n] = _interp_state_after(states.df[n])]
    /\ pair' = NotCalled
    /\ UNCHANGED <<screen, refined, proc, plan, prop>>

NextFrame == FrameScreen \/ FrameRefineCandidates \/ FrameRefinePair \/ FrameInterpState

SpecFrame == InitFrame /\ [][NextFrame]_vars

(***************************************************************************)
(* Reference notions the properties are stated with, computed from the     *)
(* trajectory store alone.                                                 *)
(***************************************************************************)
KeySet == {states.keys[i] : i \in 1..Len(states.keys)}
NKeys == Len(states.keys)

\* the pairs of mapping positions i < j
KeyPairs == {p \in (1..NKeys) \X (1..NKeys) : p[1] < p[2]}
PairNames(p) == {states.keys[p[1]], states.keys[p[2]]}

\* every trajectory has the grid of the first one
GridsAgree == \A n \in KeySet : states.df[n].time = states.df[states.keys[1]].time

Sq(x) == x * x
\* both position samples of a and b are finite at step t (1-based)
ValidStep(a, b, t) ==
    /\ states.df[a].rx_km[t].k = "fin" /\ states.df[b].rx_km[t].k = "fin"
    /\ states.df[a].ry_km[t].k = "fin" /\ states.df[b].ry_km[t].k = "fin"
    /\ states.df[a].rz_km[t].k = "fin" /\ states.df[b].rz_km[t].k = "fin"
\* the separation of a and b at a valid step
Separation(a, b, t) ==
    ISqrt(Sq(states.df[a].rx_km[t].v - states.df[b].rx_km[t].v)
        + Sq(states.df[a].ry_km[t].v - states.df[b].ry_km[t].v)
        + Sq(states.df[a].rz_km[t].v - states.df[b].rz_km[t].v))
Steps(a) == 1..Len(states.df[a].time)
ValidSteps(a, b) == {t \in Steps(a) : ValidStep(a, b, t)}
HasValidStep(a, b) == ValidSteps(a, b) # {}
\* the least separation over the valid steps
TrueMin(a, b) ==
    LET valid == ValidSteps(a, b)
        sep == [t \in valid |-> Separation(a, b, t)]
    IN CHOOSE m \in {sep[t] : t \in valid} : \A t \in valid : m <= sep[t]
\* the pair p has a coarse minimum, and it is strictly below s
BelowThreshold(p, s) ==
    /\ HasValidStep(states.keys[p[1]], states.keys[p[2]])
    /\ TrueMin(states.keys[p[1]], states.keys[p[2]]) < s

ScreenReturned == screen.status = "returned"
ScreenCalled == screen.status # "not_called"
ScreenRowsOut == screen.table.rows

\* the object n has only invalid position samples
AllInvalid(n) ==
    \A t \in Steps(n) : \E c \in 1..3 : PosAt(states.df[n], t)[c].k # "fin"

\* the mapping without the object n
RECURSIVE DropKey(_, _)
DropKey(keys, n) ==
    IF keys = <<>> THEN <<>>
    ELSE IF Head(keys) = n THEN DropKey(Tail(keys), n)
    ELSE <<Head(keys)>> \o DropKey(Tail(keys), n)
WithoutObject(n) ==
    [keys |-> DropKey(states.keys, n),
     df |-> [m \in KeySet \ {n} |-> states.df[m]]]
\* the rows a call emits: those of its table, none when it raises
RowsOfCall(res) == IF res.status = "returned" THEN res.table.rows ELSE <<>>

(***************************************************************************)
(* C1: every tuple (name_i, name_j, dmin, idx) of pairwise_min_distance    *)
(* has dmin equal to the least separation of the two objects over the      *)
(* steps where both positions are finite, and idx is such a step whose     *)
(* separation is dmin.                                                     *)
(***************************************************************************)
C1_MinDistance ==
    ScreenReturned =>
        \A k \in 1..Len(screen.tuples) :
            LET tp == screen.tuples[k]
            IN /\ tp.idx + 1 \in ValidSteps(tp.name_i, tp.name_j)
               /\ tp.dmin = Fl(Separation(tp.name_i, tp.name_j, tp.idx + 1))
               /\ \A t \in ValidSteps(tp.name_i, tp.name_j) :
                      tp.dmin.v <= Separation(tp.name_i, tp.name_j, t)

\* a pair with an invalid step and its minimum after the first step
C1_Witness ==
    /\ ScreenReturned
    /\ \E k \in 1..Len(screen.tuples) :
          /\ screen.tuples[k].idx > 0
          /\ ValidSteps(screen.tuples[k].name_i, screen.tuples[k].name_j)
               # Steps(screen.tuples[k].name_i)

(***************************************************************************)
(* C2: the Geometry Engine returns exactly one tuple for each unordered    *)
(* pair of distinct objects with a step where both are valid and none for  *)
(* an entirely invalid pair: N(N-1)/2 tuples when no pair is entirely      *)
(* invalid, no pair twice, no tuple of an object with itself.              *)
(***************************************************************************)
C2_OneTuplePerValidPair ==
    ScreenReturned =>
        LET tp == screen.tuples
            names(k) == {tp[k].name_i, tp[k].name_j}
        IN /\ \A k \in 1..Len(tp) :
                 /\ tp[k].name_i # tp[k].name_j
                 /\ names(k) \subseteq KeySet
           /\ \A k, l \in 1..Len(tp) : k # l => names(k) # names(l)
           /\ \A p \in KeyPairs :
                 HasValidStep(states.keys[p[1]], states.keys[p[2]])
                     <=> \E k \in 1..Len(tp) : names(k) = PairNames(p)
           /\ (\A p \in KeyPairs : HasValidStep(states.keys[p[1]], states.keys[p[2]]))
                 => 2 * Len(tp) = NKeys * (NKeys - 1)

\* three objects, two of the three pairs entirely invalid and omitted
C2_Witness ==
    /\ ScreenReturned
    /\ NKeys = 3
    /\ Len(screen.tuples) = 1

(***************************************************************************)
(* C3: coarse_screen(states, s) returns a row for a pair if and only if    *)
(* the pair has a coarse minimum and that minimum is strictly below s; a   *)
(* pair whose minimum equals s is dropped.                                 *)
(***************************************************************************)
C3_RowIffBelowThreshold ==
    ScreenReturned =>
        \A p \in KeyPairs :
            (\E k \in 1..Len(ScreenRowsOut) :
                 {ScreenRowsOut[k].a, ScreenRowsOut[k].b} = PairNames(p))
            <=> BelowThreshold(p, screen.screen_km.v)

\* a pair whose minimum equals the threshold, dropped
C3_Witness ==
    /\ ScreenReturned
    /\ ScreenRowsOut = <<>>
    /\ \E p \in KeyPairs :
          /\ HasValidStep(states.keys[p[1]], states.keys[p[2]])
          /\ TrueMin(states.keys[p[1]], states.keys[p[2]]) = screen.screen_km.v

(***************************************************************************)
(* C4 as claimed: every row of coarse_screen(states, s) has a reported     *)
(* dmin_km (the minimum rounded to 6 decimal places) strictly less than s. *)
(***************************************************************************)
C4_ReportedBelowThreshold ==
    ScreenReturned =>
        \A k \in 1..Len(ScreenRowsOut) :
            ScreenRowsOut[k].dmin_km.k = "fin"
            /\ ScreenRowsOut[k].dmin_km.v < screen.screen_km.v

(***************************************************************************)
(* C4 as amended: every row of coarse_screen(states, s) belongs to a pair  *)
(* whose unrounded minimum is strictly less than s; its dmin_km is that    *)
(* minimum rounded to 6 decimal places (a multiple of 10^-6 km within half *)
(* of 10^-6 km of the minimum), so dmin_km stays below s + 0.5 * 10^-6 km  *)
(* but may equal or exceed s.                                              *)
(***************************************************************************)
C4_RoundedMinBelowThreshold ==
    ScreenReturned =>
        \A k \in 1..Len(ScreenRowsOut) :
            LET r == ScreenRowsOut[k]
            IN /\ HasValidStep(r.a, r.b)
               /\ TrueMin(r.a, r.b) < screen.screen_km.v
               /\ r.dmin_km.k = "fin"
               /\ r.dmin_km.v % RoundUnit = 0
               /\ 2 * (r.dmin_km.v - TrueMin(r.a, r.b)) <= RoundUnit
               /\ 2 * (TrueMin(r.a, r.b) - r.dmin_km.v) <= RoundUnit
               /\ 2 * (r.dmin_km.v - screen.screen_km.v) < RoundUnit

\* a row whose reported dmin_km is not below the threshold
C4_Witness ==
    /\ ScreenReturned
    /\ \E k \in 1..Len(ScreenRowsOut) :
          ScreenRowsOut[k].dmin_km.v >= screen.screen_km.v

(***************************************************************************)
(* C5 as claimed: refine_candidates, given the candidates of coarse_screen *)
(* (each with its coarse-minimum index as hint), returns for every window  *)
(* W >= 0 and factor U a table whose every dca_km is at most the dmin_km   *)
(* of the candidate row it was computed from.                              *)
(***************************************************************************)
C5_RefinedNotAboveCoarse ==
    (refined.status # "not_called" /\ ScreenRowsOut # <<>>) =>
        /\ refined.status = "returned"
        /\ \A k \in 1..Len(refined.table.rows) :
              \E c \in 1..Len(ScreenRowsOut) :
                  /\ ScreenRowsOut[c].a = refined.table.rows[k].a
                  /\ ScreenRowsOut[c].b = refined.table.rows[k].b
                  /\ ~FLess(ScreenRowsOut[c].dmin_km, refined.table.rows[k].dca_km)

(***************************************************************************)
(* C6 as claimed: for every screened candidate table, also one with zero   *)
(* rows, refine_candidates returns a table with exactly one row per        *)
(* candidate row and exactly the fields a, b, t_index, t_idx_refined,      *)
(* tca_utc, dca_km, vrel_kms, each row carrying the a, b and t_index of    *)
(* its candidate.                                                          *)
(***************************************************************************)
C6_OneRowPerCandidate ==
    refined.status # "not_called" =>
        /\ refined.status = "returned"
        /\ refined.table.columns =
             <<"a", "b", "t_index", "t_idx_refined", "tca_utc", "dca_km", "vrel_kms">>
        /\ Len(refined.table.rows) = Len(ScreenRowsOut)
        /\ \A c \in 1..Len(ScreenRowsOut) :
              \E k \in 1..Len(refined.table.rows) :
                  /\ refined.table.rows[k].a = ScreenRowsOut[c].a
                  /\ refined.table.rows[k].b = ScreenRowsOut[c].b
                  /\ refined.table.rows[k].t_index = ScreenRowsOut[c].t_index

(***************************************************************************)
(* C7: whenever no pair survives screening (no minimum below the           *)
(* threshold, every pair entirely invalid, or a single trajectory),        *)
(* coarse_screen returns without error a table with zero rows and exactly  *)
(* the columns a, b, dmin_km, t_index, time_utc, in this order.            *)
(***************************************************************************)
C7_EmptyResultKeepsSchema ==
    (/\ ScreenCalled
     /\ NKeys >= 1
     /\ GridsAgree
     /\ \A p \in KeyPairs : ~BelowThreshold(p, screen.screen_km.v))
    => /\ ScreenReturned
       /\ screen.table.rows = <<>>
       /\ screen.table.columns = <<"a", "b", "dmin_km", "t_index", "time_utc">>

\* a pair with a coarse minimum, none below the threshold
C7_Witness ==
    /\ ScreenReturned
    /\ screen.table.rows = <<>>
    /\ \E p \in KeyPairs : HasValidStep(states.keys[p[1]], states.keys[p[2]])

(***************************************************************************)
(* C8: if any trajectory has a grid that differs from the first one's in   *)
(* length or in a timestamp, coarse_screen fails with the grid-mismatch    *)
(* error, no pairwise distance is computed and no table is returned,       *)
(* wherever in the mapping the deviating trajectory is.                    *)
(***************************************************************************)
C8_GridMismatchRaises ==
    (ScreenCalled /\ NKeys >= 1 /\ ~GridsAgree)
    => /\ screen.status = "raised"
       /\ screen.error = "time grids differ between satellites; cannot screen coarsely"
       /\ screen.tuples = <<>>
       /\ "table" \notin DOMAIN screen

\* the last of three trajectories differs from the others in one timestamp
C8_Witness ==
    /\ screen.status = "raised"
    /\ NKeys = 3
    /\ states.df[states.keys[2]].time = states.df[states.keys[1]].time
    /\ states.df[states.keys[3]].time # states.df[states.keys[1]].time
    /\ Len(states.df[states.keys[3]].time) = Len(states.df[states.keys[1]].time)

(***************************************************************************)
(* C9: given an empty mapping, coarse_screen (through the Geometry Engine) *)
(* fails with the empty-input error and returns no table.                  *)
(***************************************************************************)
C9_EmptyInputRaises ==
    (ScreenCalled /\ NKeys = 0)
    => /\ screen.status = "raised"
       /\ screen.error = "no states given"
       /\ "table" \notin DOMAIN screen

\* coarse_screen was called on the empty mapping
C9_Witness == ScreenCalled /\ NKeys = 0

(***************************************************************************)
(* C10: if an object has only invalid samples, coarse_screen does not      *)
(* fail: it emits no row for a pair containing that object, and exactly    *)
(* the rows it emits when screening the other objects alone.               *)
(***************************************************************************)
C10_BadObjectAbsorbed ==
    (ScreenCalled /\ GridsAgree) =>
        \A n \in KeySet :
            AllInvalid(n) =>
                /\ ScreenReturned
                /\ \A k \in 1..Len(ScreenRowsOut) :
                      ScreenRowsOut[k].a # n /\ ScreenRowsOut[k].b # n
                /\ ScreenRowsOut = RowsOfCall(coarse_screen(WithoutObject(n), screen.screen_km))

\* three objects, one of them entirely invalid, the pair of the others kept
C10_Witness ==
    /\ ScreenReturned
    /\ NKeys = 3
    /\ \E n \in KeySet : AllInvalid(n)
    /\ ScreenRowsOut # <<>>

(***************************************************************************)
(* Reference notions for a direct call of refine_pair (SpecPair).          *)
(***************************************************************************)
PairCalled == pair.status = "called"
PairGridsAgree == states.df[pair.a].time = states.df[pair.b].time
PairT == Len(states.df[pair.a].time)
PairTimes == states.df[pair.a].time

\* the first step (0-based) of least separation among the valid steps of a
\* and b; step 0 when no step is valid
CoarseMinStep(a, b) ==
    IF HasValidStep(a, b)
    THEN LET m == TrueMin(a, b)
             least == {t \in ValidSteps(a, b) : Separation(a, b, t) = m}
         IN (CHOOSE t \in least : \A u \in least : t <= u) - 1
    ELSE 0

\* the hint the call works with: the one given, else the coarse minimum
PairHint ==
    IF pair.hint = NoHint THEN CoarseMinStep(pair.a, pair.b) ELSE pair.hint

\* the coarse indices of [hint - W, hint + W] that lie in [0, T - 1]
WindowSteps ==
    LET hint == PairHint
    IN {k \in 0..(PairT - 1) : hint - pair.window <= k /\ k <= hint + pair.window}

\* both velocity samples of a and b are finite at step t (1-based)
ValidVelocity(a, b, t) ==
    \A c \in 1..3 : /\ VelAt(states.df[a], t)[c].k = "fin"
                    /\ VelAt(states.df[b], t)[c].k = "fin"
\* the relative speed of a and b at a step with finite velocities
RelSpeed(a, b, t) ==
    ISqrt(Sq(states.df[a].vx_kms[t].v - states.df[b].vx_kms[t].v)
        + Sq(states.df[a].vy_kms[t].v - states.df[b].vy_kms[t].v)
        + Sq(states.df[a].vz_kms[t].v - states.df[b].vz_kms[t].v))

(***************************************************************************)
(* C11: when the window [hint-W, hint+W] clamped to [0, T-1] holds a       *)
(* single coarse sample, refine_pair returns without error the coarse      *)
(* sample at the hint: tca_utc is the grid timestamp at the hint, dca_km   *)
(* the separation there (NaN when a sample there is invalid), vrel_kms the *)
(* norm of the relative velocity there, idx_coarse the hint; nothing is    *)
(* interpolated (idx_refined is the hint as well).                         *)
(***************************************************************************)
C11_DegenerateWindowFallsBack ==
    (PairCalled /\ PairGridsAgree /\ Cardinality(WindowSteps) = 1) =>
        LET hint == PairHint
        IN /\ ~pair.res.raised
           /\ pair.res.tca_utc = isoformat(PairTimes[hint + 1])
           /\ pair.res.dca_km =
                (IF ValidStep(pair.a, pair.b, hint + 1)
                 THEN Fl(Separation(pair.a, pair.b, hint + 1)) ELSE NaN)
           /\ pair.res.vrel_kms =
                (IF ValidVelocity(pair.a, pair.b, hint + 1)
                 THEN Fl(RelSpeed(pair.a, pair.b, hint + 1)) ELSE NaN)
           /\ pair.res.idx_coarse = hint
           /\ pair.res.idx_refined = hint

\* a call with W = 0 on a grid of several samples, hinted at a later sample
\* where the objects are apart and one of them moves
C11_Witness ==
    /\ PairCalled /\ PairGridsAgree
    /\ PairT >= 2 /\ pair.window = 0 /\ pair.hint >= 1
    /\ Cardinality(WindowSteps) = 1
    /\ ~pair.res.raised
    /\ pair.res.tca_utc = isoformat(PairTimes[pair.hint + 1])
    /\ pair.res.dca_km.k = "fin" /\ pair.res.dca_km.v > 0
    /\ pair.res.vrel_kms.k = "fin" /\ pair.res.vrel_kms.v > 0

C13_RefinePairNeverRaises ==
    /\ PairCalled => (pair.res.raised <=> ~PairGridsAgree)
    /\ screen.status = "raised" => (states.keys = <<>> \/ ~GridsAgree)

(***************************************************************************)
(* C18 as claimed: two objects in uniform linear motion (no invalid        *)
(* sample) with a relative velocity, whose exact closest approach (the     *)
(* instant the relative position is perpendicular to the relative          *)
(* velocity) is the coarse sample t: refine_pair without a hint returns    *)
(* that sample's time, the separation there and the relative speed.        *)
(***************************************************************************)
RelDotVel(a, b, t) ==
      (states.df[a].rx_km[t].v - states.df[b].rx_km[t].v)
        * (states.df[a].vx_kms[t].v - states.df[b].vx_kms[t].v)
    + (states.df[a].ry_km[t].v - states.df[b].ry_km[t].v)
        * (states.df[a].vy_kms[t].v - states.df[b].vy_kms[t].v)
    + (states.df[a].rz_km[t].v - states.df[b].rz_km[t].v)
        * (states.df[a].vz_kms[t].v - states.df[b].vz_kms[t].v)

ClosestOnSample(a, b, t) ==
    /\ \A u \in Steps(a) : ValidStep(a, b, u) /\ ValidVelocity(a, b, u)
    /\ RelSpeed(a, b, t) > 0
    /\ RelDotVel(a, b, t) = 0

C18_LinearMotionOnSample ==
    (PairCalled /\ PairGridsAgree /\ pair.hint = NoHint) =>
        \A t \in 1..PairT :
            ClosestOnSample(pair.a, pair.b, t) =>
                /\ ~pair.res.raised
                /\ pair.res.tca_utc = isoformat(PairTimes[t])
                /\ pair.res.dca_km = Fl(Separation(pair.a, pair.b, t))
                /\ pair.res.vrel_kms = Fl(RelSpeed(pair.a, pair.b, t))

(***************************************************************************)
(* C14: the rows of the table coarse_screen returns are in ascending order *)
(* of dmin_km, rows of equal dmin_km in ascending order of a, rows of      *)
(* equal dmin_km and a in ascending order of b.  No two rows agree on all  *)
(* three, so each row is strictly before the next and the order is fixed   *)
(* by the set of rows alone, not by the order the pairs were produced in.  *)
(***************************************************************************)
CandidateBefore(r1, r2) ==
    \/ r1.dmin_km.v < r2.dmin_km.v
    \/ r1.dmin_km.v = r2.dmin_km.v /\ NameRank(r1.a) < NameRank(r2.a)
    \/ r1.dmin_km.v = r2.dmin_km.v /\ r1.a = r2.a /\ NameRank(r1.b) < NameRank(r2.b)

C14_CandidatesSorted ==
    ScreenReturned =>
        /\ \A k \in 1..Len(ScreenRowsOut) : ScreenRowsOut[k].dmin_km.k = "fin"
        /\ \A i \in 1..Len(ScreenRowsOut), j \in 1..Len(ScreenRowsOut) :
              i < j => CandidateBefore(ScreenRowsOut[i], ScreenRowsOut[j])

\* three rows, the first pair produced is not the first row, and the last
\* two rows tie on dmin_km and on a
C14_Witness ==
    /\ ScreenReturned
    /\ Len(ScreenRowsOut) = 3
    /\ Len(screen.tuples) = 3
    /\ <<screen.tuples[1].name_i, screen.tuples[1].name_j>>
         # <<ScreenRowsOut[1].a, ScreenRowsOut[1].b>>
    /\ ScreenRowsOut[2].dmin_km = ScreenRowsOut[3].dmin_km
    /\ ScreenRowsOut[2].a = ScreenRowsOut[3].a

(***************************************************************************)
(* C15: the rows of the table refine_candidates returns are in ascending   *)
(* order of dca_km, ties broken by a and then by b, whatever the order of  *)
(* the rows of the candidate table it was given.                           *)
(***************************************************************************)
RefinedBefore(r1, r2) ==
    \/ r1.dca_km.v < r2.dca_km.v
    \/ r1.dca_km.v = r2.dca_km.v /\ NameRank(r1.a) < NameRank(r2.a)
    \/ r1.dca_km.v = r2.dca_km.v /\ r1.a = r2.a /\ NameRank(r1.b) < NameRank(r2.b)

C15_RefinedSorted ==
    refined.status = "returned" =>
        /\ \A k \in 1..Len(refined.table.rows) : refined.table.rows[k].dca_km.k = "fin"
        /\ \A i \in 1..Len(refined.table.rows), j \in 1..Len(refined.table.rows) :
              i < j => RefinedBefore(refined.table.rows[i], refined.table.rows[j])

\* three refined rows from a candidate table given in descending order, two
\* of them tied on dca_km
C15_Witness ==
    /\ refined.status = "returned"
    /\ Len(refined.table.rows) = 3
    /\ refined.candidates = Reversed(screen.table)
    /\ refined.candidates.rows[1].a # refined.table.rows[1].a
    /\ refined.table.rows[1].dca_km # refined.table.rows[3].dca_km
    /\ refined.table.rows[2].dca_km = refined.table.rows[3].dca_km

(***************************************************************************)
(* C16: screening is monotonic in the threshold: every row coarse_screen   *)
(* returns at the threshold s1 is a row, with the same a, b, dmin_km,      *)
(* t_index and time_utc, of the table it returns for the same store at any *)
(* threshold s2 >= s1.                                                     *)
(***************************************************************************)
RowsWithin(rows, other) ==
    \A k \in 1..Len(rows) : \E m \in 1..Len(other) : other[m] = rows[k]

C16_MonotonicInThreshold ==
    ScreenReturned =>
        \A s2 \in Thresholds :
            s2 >= screen.screen_km.v =>
                RowsWithin(ScreenRowsOut, RowsOfCall(coarse_screen(states, Fl(s2))))

\* a row at the least threshold, and more rows at the largest one
C16_Witness ==
    /\ ScreenReturned
    /\ \A s \in Thresholds : screen.screen_km.v <= s
    /\ ScreenRowsOut # <<>>
    /\ \E s2 \in Thresholds :
          Len(RowsOfCall(coarse_screen(states, Fl(s2)))) > Len(ScreenRowsOut)

(***************************************************************************)
(* Reference notions for a run of the command line (SpecCli).              *)
(***************************************************************************)
HasCalled(stage) == \E k \in 1..Len(proc.calls) : proc.calls[k] = stage
\* the command-line time is an instant
IsTime(arg) == arg.kind = "iso"
\* end is not strictly after start, or one of them is no time
BadWindow(start, end) == ~IsTime(start) \/ ~IsTime(end) \/ end.t <= start.t

(***************************************************************************)
(* C19: in the refine and report commands refine_candidates is called only *)
(* after coarse_screen has returned, and only when it returned at least    *)
(* one candidate; when it returned none the process does not fail and the  *)
(* table it writes has zero rows and exactly the columns a, b, t_index,    *)
(* t_idx_refined, tca_utc, dca_km, vrel_kms.                               *)
(***************************************************************************)
C19_RefineOnlyWithCandidates ==
    proc.cmd \in {"refine", "report"} =>
        /\ \A k \in 1..Len(proc.calls) :
              proc.calls[k] = "refine_candidates" =>
                  /\ \E j \in 1..(k - 1) : proc.calls[j] = "coarse_screen"
                  /\ screen.status = "returned"
                  /\ screen.table.rows # <<>>
        /\ refined.status # "not_called" <=> HasCalled("refine_candidates")
        /\ (screen.status = "returned" /\ screen.table.rows = <<>>) =>
              /\ proc.pc \in {"screened", "writing", "done"}
              /\ ~HasCalled("refine_candidates")
              /\ proc.pc = "done" =>
                    /\ proc.out.written
                    /\ proc.out.table.rows = <<>>
                    /\ proc.out.table.columns =
                         <<"a", "b", "t_index", "t_idx_refined", "tca_utc",
                           "dca_km", "vrel_kms">>

\* the refine command has written its table after a screening of several
\* objects, with a valid pair, that returned no candidate
C19_Witness ==
    /\ proc.cmd = "refine" /\ proc.pc = "done"
    /\ Len(states.keys) >= 2
    /\ screen.status = "returned"
    /\ screen.tuples # <<>>
    /\ screen.table.rows = <<>>
    /\ proc.calls = <<"load_tles", "propagate_group", "coarse_screen">>
    /\ proc.out.written

(***************************************************************************)
(* C20 as claimed: whenever the subcommand is given --start and --end and  *)
(* end is not strictly after start, or one of them is no time, the process *)
(* exits in main with the invalid-date or the invalid-window message, the  *)
(* handler is never dispatched, no stage is called (the TLE file is not    *)
(* opened) and nothing is written.                                         *)
(***************************************************************************)
C20_WindowValidatedBeforeDispatch ==
    (proc.pc # "main" /\ BadWindow(proc.start, proc.end)) =>
        /\ proc.pc = "exited"
        /\ proc.exit \in {InvalidDate, InvalidWindow}
        /\ proc.calls = <<>>
        /\ ~proc.out.written
        /\ ~proc.made_dir

(***************************************************************************)
(* Reference notions for the delta-v planner.                              *)
(***************************************************************************)
PlanCalled == plan.status = "returned"
PlanInput == plan.refined_df.rows
PlanOutput == plan.table.rows

\* seconds from the plan time to the TCA of a row
PlanDt(r) == (r.tca_utc.mm * 60 + r.tca_utc.ss)
             - (plan.plan_time_iso.mm * 60 + plan.plan_time_iso.ss)

\* the capped delta-v of a row before it is rounded: min(target*1000/dt, cap)
PlanDvCap(r) ==
    LET needed == (plan.target_dca_km * 1000) \div PlanDt(r)
    IN IF needed < plan.max_dv_mps THEN needed ELSE plan.max_dv_mps

SameEncounter(r, s) == r.a = s.a /\ r.b = s.b /\ r.tca_utc = s.tca_utc

\* how many refined rows describe the encounter of r
Multiplicity(r) ==
    Cardinality({i \in 1..Len(PlanInput) : SameEncounter(PlanInput[i], r)})

\* the suggestions for the encounter of r with the given actor
SuggestionsFor(r, actor) ==
    {j \in 1..Len(PlanOutput) :
       SameEncounter(PlanOutput[j], r) /\ PlanOutput[j].actor = actor}

Dv(j) == PlanOutput[j].suggested_dv_mps.v

\* every suggestion belongs to a refined row and to actor a or b
NoStraySuggestion ==
    \A j \in 1..Len(PlanOutput) :
        /\ PlanOutput[j].actor \in {"a", "b"}
        /\ \E i \in 1..Len(PlanInput) :
             SameEncounter(PlanInput[i], PlanOutput[j]) /\ PlanDt(PlanInput[i]) > 0

Rounded6(x) ==
    LET q == x \div RoundUnit
        r == x % RoundUnit
    IN IF 2 * r < RoundUnit \/ (2 * r = RoundUnit /\ q % 2 = 0)
       THEN q * RoundUnit ELSE (q + 1) * RoundUnit

PropReturned == prop.status = "returned"
PropNames == {prop.out.keys[i] : i \in 1..Len(prop.out.keys)}
\* the step in whole seconds
PropStep == prop.step_s \div 1000
PropLength == (prop.end.t - prop.start.t) \div PropStep + 1
PropSat(n) == prop.df_tles[CHOOSE i \in 1..Len(prop.df_tles) : prop.df_tles[i].name = n].sat
Components == {"rx_km", "ry_km", "rz_km", "vx_kms", "vy_kms", "vz_kms"}

\* C23: propagate_group gives every object the same time grid, strictly
\* increasing from the start time in steps of the step in whole seconds,
\* floor((end - start)/step) + 1 instants (6 for 5 minutes at 60 s); a failed
\* step is not-a-number at its own position, and every other sample is the
\* propagator's state at the instant of its position; an end time not
\* strictly after the start time fails with an error.
C23_CommonGridAlignedFailures ==
    /\ PropReturned =>
         \A n \in PropNames :
            LET df == prop.out.df[n]
            IN /\ Len(df.time) = PropLength
               /\ df.time[1] = prop.start.t
               /\ \A k \in 1..(Len(df.time) - 1) :
                    df.time[k + 1] = df.time[k] + PropStep /\ df.time[k] < df.time[k + 1]
               /\ df.time[Len(df.time)] <= prop.end.t
               /\ \A m \in PropNames : prop.out.df[m].time = df.time
               /\ \A c \in Components : Len(df[c]) = PropLength
               /\ \A k \in 1..PropLength :
                    IF IsBad(PropSat(n).bad, k, PropLength)
                    THEN \A c \in Components : df[c][k] = NaN
                    ELSE /\ df.rx_km[k] = Fl(PropSat(n).p0[1] + PropSat(n).vel[1] * df.time[k])
                         /\ df.vx_kms[k] = Fl(PropSat(n).vel[1])
                         /\ \A c \in Components : isfinite(df[c][k])
    /\ (prop.status # "not_called" /\ prop.end.t <= prop.start.t) =>
         prop.status = "raised"
    /\ (prop.status # "not_called" /\ prop.end.t > prop.start.t) => PropReturned

\* a 5-minute window at 60 s gives two objects 6 samples each, one of them
\* with a failed first step, and a window with a fractional step of 20.5 s
\* is walked in steps of 20 s
C23_Witness ==
    /\ PropReturned
    /\ Len(prop.out.keys) = 2
    /\ \/ /\ prop.end.t - prop.start.t = 300 /\ prop.step_s = 60000
          /\ Len(prop.out.df["A"].time) = 6
          /\ prop.out.df["A"].rx_km[1] = NaN /\ isfinite(prop.out.df["A"].rx_km[2])
          /\ isfinite(prop.out.df["B"].rx_km[1])
       \/ /\ prop.step_s = 20500 /\ prop.end.t - prop.start.t = 40
          /\ Len(prop.out.df["A"].time) = 3

\* the steps at which the separation of a and b is their least one
MinSteps(a, b) == {t \in ValidSteps(a, b) : Separation(a, b, t) = TrueMin(a, b)}
\* the lowest of them
FirstMinStep(a, b) ==
    CHOOSE t \in MinSteps(a, b) : \A u \in MinSteps(a, b) : t <= u

\* C24: when several steps of a pair achieve the identical minimum
\* separation, the tuple of pairwise_min_distance carries the lowest such
\* index, and the row of coarse_screen reports this index as t_index with the
\* grid timestamp at that index as time_utc.
C24_FirstMinimumReported ==
    ScreenReturned =>
        /\ \A k \in 1..Len(screen.tuples) :
              LET tp == screen.tuples[k]
                  valid == ValidSteps(tp.name_i, tp.name_j)
                  sep == [t \in valid |-> Separation(tp.name_i, tp.name_j, t)]
                  j == tp.idx + 1
              IN /\ j \in valid
                 /\ \A t \in valid : sep[j] <= sep[t]
                 /\ \A t \in valid : t < j => sep[j] < sep[t]
        /\ \A k \in 1..Len(ScreenRowsOut) :
              LET row == ScreenRowsOut[k]
              IN /\ \E m \in 1..Len(screen.tuples) :
                      /\ screen.tuples[m].name_i = row.a
                      /\ screen.tuples[m].name_j = row.b
                      /\ screen.tuples[m].idx = row.t_index
                 /\ row.time_utc = isoformat(states.df[row.a].time[row.t_index + 1])
                 /\ row.time_utc = isoformat(states.df[row.b].time[row.t_index + 1])

\* a reported pair whose minimum is achieved at two steps or more, the first
\* of them after an invalid first step
C24_Witness ==
    /\ ScreenReturned
    /\ \E k \in 1..Len(ScreenRowsOut) :
         /\ Cardinality(MinSteps(ScreenRowsOut[k].a, ScreenRowsOut[k].b)) >= 2
         /\ ScreenRowsOut[k].t_index = 1

(***************************************************************************)
(* Reference notions for the refined grid of a direct call of refine_pair. *)
(***************************************************************************)
\* the first and last coarse index (0-based) of the window, and its size
WindowFirst == CHOOSE k \in WindowSteps : \A m \in WindowSteps : k <= m
WindowLast == CHOOSE k \in WindowSteps : \A m \in WindowSteps : k >= m
WindowSize == Cardinality(WindowSteps)
ClampedU == IF pair.upsample < 2 THEN 2 ELSE pair.upsample
\* the refined grid: (n-1)*U + 1 instants from the first to the last
\* timestamp of the window
RefinedGrid ==
    LET periods == (WindowSize - 1) * ClampedU + 1
        first == PairTimes[WindowFirst + 1]
        last == PairTimes[WindowLast + 1]
    IN [i \in 1..periods |->
          IF periods = 1 THEN first
          ELSE first + ((i - 1) * (last - first)) \div (periods - 1)]

\* C25 (as stated): in the non-degenerate case refine_pair returns a result
\* whose idx_refined is the lowest refined-grid index of the minimum norm of
\* the interpolated relative position (non-finite norms as +infinity), dca_km
\* the norm there, tca_utc the refined-grid timestamp there, vrel_kms the
\* norm of the interpolated relative velocity there, and idx_coarse the hint
\* that was used.
C25_RefinedMinimumReported ==
    (PairCalled /\ PairGridsAgree /\ WindowSize >= 2) =>
        /\ ~pair.res.raised
        /\ LET grid == RefinedGrid
               sa == _interp_state(states.df[pair.a], grid)
               sb == _interp_state(states.df[pair.b], grid)
               d == [i \in 1..Len(grid) |->
                       IF isfinite(norm(Vec3Sub(sa.R[i], sb.R[i])))
                       THEN norm(Vec3Sub(sa.R[i], sb.R[i])) ELSE Inf]
               j == pair.res.idx_refined + 1
           IN /\ j \in 1..Len(grid)
              /\ \A i \in 1..Len(grid) : ~FLess(d[i], d[j])
              /\ \A i \in 1..(j - 1) : FLess(d[j], d[i])
              /\ pair.res.dca_km = d[j]
              /\ pair.res.tca_utc = isoformat(grid[j])
              /\ pair.res.vrel_kms = norm(Vec3Sub(sa.V[j], sb.V[j]))
              /\ pair.res.idx_coarse = PairHint

\* C26 (as stated): for a non-degenerate window of n coarse samples
\* refine_pair works on a refined grid of (n-1)*max(U, 2) + 1 evenly spaced
\* points from the window's first to its last timestamp: it returns one of
\* these points, and the call with U < 2 returns what the call with U = 2
\* returns.
C26_RefinedGridShape ==
    (PairCalled /\ PairGridsAgree /\ WindowSize >= 2) =>
        /\ ~pair.res.raised
        /\ pair.res.idx_refined \in 0..((WindowSize - 1) * ClampedU)
        /\ pair.res.tca_utc = isoformat(RefinedGrid[pair.res.idx_refined + 1])
        /\ pair.upsample < 2 =>
             pair.res = refine_pair(states.df[pair.a], states.df[pair.b],
                                    pair.hint, pair.window, 2)

\* the index the Geometry Engine reports for the pair (a, b)
GeometryTuples(a, b) ==
    pairwise_min_distance(<<a, b>>, <<Positions(states.df[a]), Positions(states.df[b])>>)

\* C27: when refine_pair is called without a hint on a pair with at least
\* one valid step, the hint it computes is the index pairwise_min_distance
\* returns for the pair (the lowest index of the least finite separation),
\* and the call has the outcome of the call hinted with that index.
C27_ComputedHintIsGeometryIndex ==
    (PairCalled /\ PairGridsAgree /\ pair.hint = NoHint
       /\ HasValidStep(pair.a, pair.b)) =>
        LET tuples == GeometryTuples(pair.a, pair.b)
        IN /\ Len(tuples) = 1
           /\ tuples[1].idx + 1 = FirstMinStep(pair.a, pair.b)
           /\ pair.res = refine_pair(states.df[pair.a], states.df[pair.b],
                                     tuples[1].idx, pair.window, pair.upsample)
           /\ ~pair.res.raised => pair.res.idx_coarse = tuples[1].idx

\* a call without a hint that returns, for a pair whose first step is invalid
\* and whose least separation is at the last of three steps
C27_Witness ==
    /\ PairCalled /\ PairGridsAgree /\ pair.hint = NoHint
    /\ PairT = 3
    /\ ~ValidStep(pair.a, pair.b, 1)
    /\ HasValidStep(pair.a, pair.b)
    /\ ~pair.res.raised
    /\ pair.res.idx_coarse = 2
    /\ GeometryTuples(pair.a, pair.b)[1].idx = 2

\* C29 (as stated): in every result of refine_pair, the fallback included,
\* 0 <= idx_refined <= (n-1)*U for the window of n coarse samples and the
\* clamped U (so idx_refined = 0 for a window of a single sample), and the
\* refined-grid timestamp at idx_refined is tca_utc.
C29_RefinedIndexInGrid ==
    (PairCalled /\ PairGridsAgree /\ ~pair.res.raised) =>
        /\ 0 <= pair.res.idx_refined
        /\ pair.res.idx_refined <= (WindowSize - 1) * ClampedU
        /\ pair.res.tca_utc = isoformat(RefinedGrid[pair.res.idx_refined + 1])

(***************************************************************************)
(* Reference notions for the gap fill of a component.                      *)
(***************************************************************************)
CompCalled == comp.status = "called"
CompValid == {i \in 1..Len(comp.y) : comp.y[i].k = "fin"}
\* the nearest valid sample before i, and the nearest one after i
EarlierValid(i) == {k \in CompValid : k < i}
LaterValid(i) == {k \in CompValid : k > i}
NearestEarlier(i) == CHOOSE k \in EarlierValid(i) : \A m \in EarlierValid(i) : m <= k
NearestLater(i) == CHOOSE k \in LaterValid(i) : \A m \in LaterValid(i) : k <= m

\* C28: for a component with at least one finite sample, after the fill
\* every sample is finite, every originally valid sample is unchanged, and
\* each invalid sample holds the nearest earlier valid sample or, when there
\* is none, the nearest later valid one, and the interpolated series is
\* finite and passes through the filled samples; a component with no finite
\* sample is left as it is and yields an all-invalid interpolated series,
\* whose norm the minimum search replaces by +infinity.
C28_GapFill ==
    CompCalled =>
        IF CompValid # {}
        THEN /\ Len(comp.y_after) = Len(comp.y)
             /\ \A i \in 1..Len(comp.y) :
                  /\ comp.y_after[i].k = "fin"
                  /\ i \in CompValid => comp.y_after[i] = comp.y[i]
                  /\ (i \notin CompValid /\ EarlierValid(i) # {}) =>
                        comp.y_after[i] = comp.y[NearestEarlier(i)]
                  /\ (i \notin CompValid /\ EarlierValid(i) = {}) =>
                        comp.y_after[i] = comp.y[NearestLater(i)]
             /\ \A j \in 1..Len(comp.out) : comp.out[j].k = "fin"
             /\ \A i \in 1..Len(comp.y) :
                  comp.out[(i - 1) * comp.upsample + 1] = comp.y_after[i]
        ELSE /\ comp.y_after = comp.y
             /\ Len(comp.out) = Len(comp.t_new_s)
             /\ \A j \in 1..Len(comp.out) :
                  /\ comp.out[j].k = "nan"
                  /\ d_safe_of(<<norm(<<comp.out[j], Fl(0), Fl(0)>>)>>)[1] = Inf

\* a component with invalid samples before its first valid one, between two
\* valid ones and after the last one
C28_Witness ==
    /\ CompCalled
    /\ Len(comp.y) = 4
    /\ comp.y[1].k # "fin" /\ comp.y[2].k = "fin" /\ comp.y[3].k # "fin"
    /\ comp.y[4].k = "fin" /\ comp.y[4] # comp.y[2]
    /\ comp.y_after[1] = comp.y[2] /\ comp.y_after[3] = comp.y[2]

(***************************************************************************)
(* Reference notions for the calls on one store.                           *)
(***************************************************************************)
RefinedCalled == refined.status # "not_called"
\* two outcomes of refine_candidates agree: both raise the same error or
\* both return the same table
SameOutcome(r1, r2) ==
    /\ r1.status = r2.status
    /\ r1.error = r2.error
    /\ r1.status = "returned" => r1.table = r2.table

\* the row of the refined table is the result of refine_pair for its pair
\* alone, on the store as it is
RowOfPairAlone(row) ==
    LET res == refine_pair(states.df[row.a], states.df[row.b], row.t_index,
                           refined.window, refined.upsample)
    IN /\ ~res.raised
       /\ row.t_idx_refined = res.idx_refined
       /\ row.tca_utc = res.tca_utc
       /\ row.dca_km = round6(res.dca_km)
       /\ row.vrel_kms = round6(res.vrel_kms)

\* C30: coarse_screen, refine_pair, refine_candidates (and _interp_state,
\* despite its in-place gap fill) leave the store unchanged at every call of
\* any sequence of calls, the candidate table is the screened one in some
\* row order, the outcome of refine_candidates is the same for either row
\* order, and each refined row is the result of refine_pair for its pair
\* alone on the store.
C30_InputsUnchanged ==
    /\ [][states' = states]_vars
    /\ [](RefinedCalled =>
            /\ refined.candidates \in CandidateOrders(screen.table)
            /\ SameOutcome(refined,
                           refine_candidates(states, Reversed(refined.candidates),
                                             refined.window, refined.upsample))
            /\ refined.status = "returned" =>
                 \A k \in 1..Len(refined.table.rows) :
                     RowOfPairAlone(refined.table.rows[k]))

\* after a screening and a refinement of two candidates or more that
\* returned, _interp_state has run on a trajectory whose first sample is
\* invalid: the sample is still invalid in the store and filled in the
\* interpolated series
C30_Witness ==
    /\ refined.status = "returned"
    /\ Len(refined.table.rows) >= 2
    /\ comp.status = "called"
    /\ comp.before = states.df[comp.name]
    /\ states.df[comp.name].rx_km[1] = NaN
    /\ comp.out.R[1][1].k = "fin"

====
